---- MODULE Spec2Model ----
(***************************************************************************)
(* Model of the broadside project-state engine: the ViewerModel (path,     *)
(* is_stale, save), the State it owns (load from / save to project.json),  *)
(* the Viewer controller's save/discard/cancel flow, and the project-step  *)
(* editors that propagate renames and deletions to cross-references.       *)
(***************************************************************************)
EXTENDS Integers, Sequences, FiniteSets, TLC

VARIABLES
    state,      \* ViewerModel.state : the loaded State, or NoState (None)
    is_stale,   \* ViewerModel._is_stale
    disk,       \* the file system: per directory, project.json and images/
    emitted,    \* what the last operation emitted / wrote, in order
    unsaved,    \* history: the State holds a change that no completed write
                \* of project.json contains
    lastOp,     \* the last operation and its inputs
    nops,       \* number of operations performed so far
    navigator,  \* Navigator.model : the NavigatorModel of the step bar
    container   \* an evented container on its own (EventedList, EventedDict),
                \* with the calls its subscribers received; NoContainer
                \* where the viewer as a whole is modelled

vars == <<state, is_stale, disk, emitted, unsaved, lastOp, nops, navigator,
         container>>

NoContainer == [kind |-> "none"]

----------------------------------------------------------------------------
(* Bounds *)

MaxPayloads == 3
MaxBlocks   == 3
MaxSamples  == 2
MaxDevices  == 2
MaxPanels   == 3
MaxOps      == 3    \* operations explored after the initial state

----------------------------------------------------------------------------
(* Values *)

None    == "None"        \* Python None, for string-valued fields
Missing == "<missing>"   \* a key that is absent from a JSON object

\* names a user can type into a tab title or a table cell
NameChoices == {"", "A", "B", "C"}

\* text a user can type into the description box
DescriptionChoices == {"", "text"}

NoState == [is_set |-> FALSE]

\* enumerations of models/payload.py, member -> serialized value
LongOrientValue == [TipIntoPage  |-> "tip into page/booster out of page",
                    TipOutOfPage |-> "tip out of page/booster into page"]
LongDirValue    == [IncreasingTowardsTip     |-> "levels increasing towards tip",
                    IncreasingTowardsBooster |-> "levels increasing towards booster"]
AngDirValue     == [Clockwise        |-> "clockwise positive",
                    CounterClockwise |-> "counterclockwise positive"]

\* Enum(value): the member whose value is the given string
EnumOfValue(enum, val) == CHOOSE m \in DOMAIN enum : enum[m] = val

\* decimal digits of the small counts used in default names
Str(n) == CASE n = 0 -> "0" [] n = 1 -> "1" [] n = 2 -> "2" [] n = 3 -> "3"
            [] n = 4 -> "4" [] n = 5 -> "5" [] OTHER -> "n"

BoolStr(b) == IF b THEN "True" ELSE "False"

Range(s) == {s[i] : i \in DOMAIN s}

\* del s[i] for a 1-based index i
RemoveAt(s, i) == [j \in 1..(Len(s) - 1) |-> IF j < i THEN s[j] ELSE s[j + 1]]

----------------------------------------------------------------------------
(* Entities (models/payload.py, models/block.py, models/panel.py,          *)
(* models/image.py)                                                        *)

\* EventedAngle: an object holding an angle in [0, 360), here in whole
\* degrees.  The class defines neither __eq__ nor __hash__, so two angles are
\* equal only when they are the same object: id is the object's identity.
EventedAngle(id, deg) == [id |-> id, deg |-> deg % 360]

\* Formulation(level, angle, name); id identifies the EventedAngle it creates
Formulation(id, level, angle, name) ==
    [level |-> level, angle |-> EventedAngle(id, angle), name |-> name]

\* Formulation.is_valid
Formulation_is_valid(f) == f.level # "" /\ f.name # ""

Payload(name) ==
    [name |-> name, long_orient |-> None, long_dir |-> None, ang_dir |-> None,
     formulations |-> <<>>]

Sample(name) == [name |-> name]

Device(name) == [name |-> name, payload_name |-> "", sample_name |-> ""]

\* Vector: a position in the block diagram and an angle in whole degrees
Vector(x, y, angle) == [x |-> x, y |-> y, angle |-> angle % 360]

Block(name) ==
    [name |-> name, samples |-> <<>>, devices |-> <<>>, vectors |-> <<>>]

Panel(name) == [name |-> name]

Image(relpath) == [relpath |-> relpath, block_name |-> "", panel_name |-> ""]

\* Payload.is_formulations_unique: the (level, angle) pairs are put in a set,
\* where pairs are equal when the levels are equal and the angles are the
\* same EventedAngle object
Payload_is_formulations_unique(p) ==
    LET levels_angles == [i \in DOMAIN p.formulations |->
                            <<p.formulations[i].level, p.formulations[i].angle.id>>]
    IN Len(levels_angles) = Cardinality(Range(levels_angles))

\* Payload.is_valid
Payload_is_valid(p) ==
    /\ p.name # ""
    /\ p.long_orient # None
    /\ p.long_dir # None
    /\ p.ang_dir # None
    /\ \A i \in DOMAIN p.formulations : Formulation_is_valid(p.formulations[i])
    /\ Payload_is_formulations_unique(p)

----------------------------------------------------------------------------
(* Serialization: as_dict / from_dict                                      *)

\* Payload.as_dict reads .value of each enum: AttributeError when one is None
Payload_as_dict_raises(p) ==
    p.long_orient = None \/ p.long_dir = None \/ p.ang_dir = None

\* Formulation.as_dict: "angle" is Angle.int
Formulation_as_dict(f) == [level |-> f.level, angle |-> f.angle.deg, name |-> f.name]

\* Formulation.from_dict, for the i-th entry of a payload's list: every entry
\* gets a Formulation, and so an EventedAngle, of its own
Formulation_from_dict(d, i) ==
    Formulation(i, IF d.level = Missing THEN "" ELSE d.level, d.angle,
                IF d.name = Missing THEN "" ELSE d.name)

Payload_as_dict(p) ==
    [name |-> p.name,
     longitudinal_orientation |-> LongOrientValue[p.long_orient],
     longitudinal_direction   |-> LongDirValue[p.long_dir],
     angular_direction        |-> AngDirValue[p.ang_dir],
     formulations |-> [i \in DOMAIN p.formulations |->
                          Formulation_as_dict(p.formulations[i])]]

Payload_from_dict(d) ==
    [name        |-> IF d.name = Missing THEN "Unnamed" ELSE d.name,
     long_orient |-> IF d.longitudinal_orientation = Missing THEN None
                     ELSE EnumOfValue(LongOrientValue, d.longitudinal_orientation),
     long_dir    |-> IF d.longitudinal_direction = Missing THEN None
                     ELSE EnumOfValue(LongDirValue, d.longitudinal_direction),
     ang_dir     |-> IF d.angular_direction = Missing THEN None
                     ELSE EnumOfValue(AngDirValue, d.angular_direction),
     formulations |-> [i \in DOMAIN d.formulations |->
                          Formulation_from_dict(d.formulations[i], i)]]

Sample_as_dict(s) == [name |-> s.name]
Sample_from_dict(d) == [name |-> IF d.name = Missing THEN "" ELSE d.name]

Device_as_dict(v) ==
    [name |-> v.name, payload_name |-> v.payload_name, sample_name |-> v.sample_name]

Device_from_dict(d) ==
    [name         |-> IF d.name = Missing THEN "" ELSE d.name,
     payload_name |-> IF d.payload_name = Missing THEN "" ELSE d.payload_name,
     sample_name  |-> IF d.sample_name = Missing THEN "" ELSE d.sample_name]

\* Vector.as_dict: "pos" is the pair (x, y), "angle" is Angle.int
Vector_as_dict(v) == [pos |-> <<v.x, v.y>>, angle |-> v.angle]

\* Vector.from_dict, for an entry that carries both keys
Vector_from_dict(d) == Vector(d.pos[1], d.pos[2], d.angle)

Block_as_dict(b) ==
    [name    |-> b.name,
     samples |-> [i \in DOMAIN b.samples |-> Sample_as_dict(b.samples[i])],
     devices |-> [i \in DOMAIN b.devices |-> Device_as_dict(b.devices[i])],
     vectors |-> [i \in DOMAIN b.vectors |-> Vector_as_dict(b.vectors[i])]]

Block_from_dict(d) ==
    [name    |-> IF d.name = Missing THEN "" ELSE d.name,
     samples |-> [i \in DOMAIN d.samples |-> Sample_from_dict(d.samples[i])],
     devices |-> [i \in DOMAIN d.devices |-> Device_from_dict(d.devices[i])],
     vectors |-> [i \in DOMAIN d.vectors |-> Vector_from_dict(d.vectors[i])]]

Panel_as_dict(p) == [name |-> p.name]
Panel_from_dict(d) == [name |-> IF d.name = Missing THEN "" ELSE d.name]

Image_as_dict(im) ==
    [relpath |-> im.relpath, block_name |-> im.block_name, panel_name |-> im.panel_name]

\* Image.from_dict raises RuntimeError when relpath is absent
Image_from_dict_raises(d) == d.relpath = Missing

Image_from_dict(d) ==
    [relpath    |-> d.relpath,
     block_name |-> IF d.block_name = Missing THEN "" ELSE d.block_name,
     panel_name |-> IF d.panel_name = Missing THEN "" ELSE d.panel_name]

----------------------------------------------------------------------------
(* The file system                                                         *)

Dirs == {"P", "Q", "R", "D", "C", "M"}   \* project directories that exist
RootDir  == "/"                     \* a directory whose name is ""
NotADir  == "notes.txt"             \* a path that is not a directory

PathChoices == Dirs \cup {RootDir, NotADir, None}

Path_is_dir(p) == p \in Dirs \cup {RootDir}
Path_name(p) == IF p = RootDir THEN "" ELSE p

\* files that may lie under images/, as relative paths
RelPaths == {"a/x.svs", "b/x.svs", "y.svs", "z.txt"}

Relpath_name(r) ==
    CASE r = "a/x.svs" -> "x.svs"
      [] r = "b/x.svs" -> "x.svs"
      [] r = "y.svs"   -> "y.svs"
      [] OTHER         -> "z.txt"

\* file.endswith((".svs", ".scn"))
HasImageExt(r) == r \in {"a/x.svs", "b/x.svs", "y.svs"}

\* position of a relative path in natural sort order
\* no images/ folder of the model holds more image files than this
MaxImages == Cardinality({r \in RelPaths : HasImageExt(r)})

RelpathRank(r) ==
    CASE r = "a/x.svs" -> 1
      [] r = "b/x.svs" -> 2
      [] r = "y.svs"   -> 3
      [] OTHER         -> 4

Absent  == [kind |-> "absent"]     \* no project.json
Corrupt == [kind |-> "corrupt"]    \* project.json is not valid JSON

OrientedJson(name) ==
    [name |-> name,
     longitudinal_orientation |-> LongOrientValue.TipOutOfPage,
     longitudinal_direction   |-> LongDirValue.IncreasingTowardsTip,
     angular_direction        |-> AngDirValue.Clockwise,
     formulations |-> << [level |-> "1", angle |-> 0, name |-> "F1"],
                         [level |-> "1", angle |-> 90, name |-> "F2"] >>]

BareJson(name) ==
    [name |-> name,
     longitudinal_orientation |-> Missing,
     longitudinal_direction   |-> Missing,
     angular_direction        |-> Missing,
     formulations |-> <<>>]

\* a project whose references all resolve
DocP ==
    [kind |-> "json",
     description |-> "text",
     payloads |-> <<OrientedJson("A"), OrientedJson("B")>>,
     blocks |-> << [name |-> "A",
                    samples |-> << [name |-> "A"] >>,
                    devices |-> << [name |-> "Device 1", payload_name |-> "A",
                                    sample_name |-> "A"],
                                   [name |-> "Device 2", payload_name |-> "B",
                                    sample_name |-> "A"] >>,
                    vectors |-> << [pos |-> <<10, 20>>, angle |-> 0],
                                   [pos |-> <<-10, 20>>, angle |-> 90] >>],
                   [name |-> "B",
                    samples |-> << [name |-> "A"] >>,
                    devices |-> << [name |-> "Device 1", payload_name |-> "A",
                                    sample_name |-> "A"] >>,
                    vectors |-> <<>>] >>,
     panels |-> << [name |-> "A"], [name |-> "B"] >>,
     images |-> << [relpath |-> "y.svs", block_name |-> "A", panel_name |-> "A"],
                   [relpath |-> "a/x.svs", block_name |-> "B", panel_name |-> "B"] >>]

\* a hand-edited project: references to entities that do not exist, a payload
\* without orientation keys
DocR ==
    [kind |-> "json",
     description |-> "",
     payloads |-> <<BareJson("A")>>,
     blocks |-> << [name |-> "A",
                    samples |-> << [name |-> "A"] >>,
                    devices |-> << [name |-> "Device 1", payload_name |-> "Z",
                                    sample_name |-> "Z"] >>,
                    vectors |-> << [pos |-> <<0, 0>>, angle |-> 0] >>] >>,
     panels |-> << [name |-> "A"] >>,
     images |-> << [relpath |-> "y.svs", block_name |-> "Z", panel_name |-> "Z"] >>]

\* a project whose recorded image was moved to another folder by hand
DocM ==
    [kind |-> "json",
     description |-> "",
     payloads |-> <<>>,
     blocks |-> <<>>,
     panels |-> <<>>,
     images |-> << [relpath |-> "a/x.svs", block_name |-> "", panel_name |-> ""] >>]

InitDisk ==
    [d \in Dirs |->
        CASE d = "P" -> [json |-> DocP,    files |-> {"a/x.svs", "y.svs"}]
          [] d = "Q" -> [json |-> Absent,  files |-> {"y.svs", "z.txt"}]
          [] d = "R" -> [json |-> DocR,    files |-> {"y.svs"}]
          [] d = "D" -> [json |-> Absent,  files |-> {"a/x.svs", "b/x.svs"}]
          [] d = "M" -> [json |-> DocM,    files |-> {"b/x.svs"}]
          [] OTHER   -> [json |-> Corrupt, files |-> {}]]

----------------------------------------------------------------------------
(* State: load                                                             *)

\* get_pr_image_relpaths: the image files under images/; raises RuntimeError
\* when two of them share a file name
ImageRelpaths(files) == {r \in files : HasImageExt(r)}

\* variant: whole relative paths are compared instead of file names
get_pr_image_relpaths_raises_on_equal_paths(files) ==
    \E r1, r2 \in ImageRelpaths(files) : r1 # r2 /\ r1 = r2

get_pr_image_relpaths_raises(files) ==
    \E r1, r2 \in ImageRelpaths(files) :
        r1 # r2 /\ Relpath_name(r1) = Relpath_name(r2)

\* sorted(images, key=natsort_keygen(key=lambda im: im.relpath)): stable
RECURSIVE InsertSorted(_, _)
InsertSorted(sorted, im) ==
    IF sorted = <<>> THEN <<im>>
    ELSE IF RelpathRank(im.relpath) < RelpathRank(Head(sorted).relpath)
         THEN <<im>> \o sorted
         ELSE <<Head(sorted)>> \o InsertSorted(Tail(sorted), im)

RECURSIVE SortImages(_)
SortImages(images) ==
    IF images = <<>> THEN <<>>
    ELSE InsertSorted(SortImages(SubSeq(images, 1, Len(images) - 1)),
                      images[Len(images)])

\* the set as a list, in natural order
RECURSIVE NewImages(_)
NewImages(relpaths) ==
    IF relpaths = {} THEN <<>>
    ELSE LET r == CHOOSE x \in relpaths :
                    \A y \in relpaths : RelpathRank(x) <= RelpathRank(y)
         IN <<Image(r)>> \o NewImages(relpaths \ {r})

\* the loop of State._get_images over the recorded entries.  An entry whose
\* file is found elsewhere under the same name is given the new path by
\* assigning Image.relpath, a property without a setter: AttributeError
RECURSIVE GetImagesLoop(_, _, _, _)
GetImagesLoop(state_images, files, fs_relpaths, images) ==
    IF state_images = <<>>
    THEN [fs_relpaths |-> fs_relpaths, images |-> images, raised |-> FALSE]
    ELSE LET im   == Head(state_images)
             rest == Tail(state_images)
         IN IF Image_from_dict_raises(im)
            THEN GetImagesLoop(rest, files, fs_relpaths, images)
            ELSE LET pr_image == Image_from_dict(im)
                     found == {r \in fs_relpaths :
                                 Relpath_name(r) = Relpath_name(pr_image.relpath)}
                 IN IF pr_image.relpath \in files
                    THEN GetImagesLoop(rest, files, fs_relpaths,
                                       Append(images, pr_image))
                    ELSE IF found = {}
                    THEN GetImagesLoop(rest, files, fs_relpaths, images)
                    ELSE [fs_relpaths |-> fs_relpaths, images |-> images,
                          raised |-> TRUE]

State_get_images(state_images, files) ==
    LET loop == GetImagesLoop(state_images, files, ImageRelpaths(files), <<>>)
        existing_relpaths == {loop.images[i].relpath : i \in DOMAIN loop.images}
    IN SortImages(loop.images
                  \o NewImages(loop.fs_relpaths \ existing_relpaths))

\* json.load of project.json, or {} when absent or malformed
EmptyDoc ==
    [kind |-> "json", description |-> "", payloads |-> <<>>, blocks |-> <<>>,
     panels |-> <<>>, images |-> <<>>]

ReadDoc(json) == IF json.kind = "json" THEN json ELSE EmptyDoc

\* State.__init__
State_init_raises(path, dsk) ==
    \/ get_pr_image_relpaths_raises(dsk[path].files)
    \/ GetImagesLoop(ReadDoc(dsk[path].json).images, dsk[path].files,
                     ImageRelpaths(dsk[path].files), <<>>).raised

State_validate(st) == st

State_init(path, dsk) ==
    LET doc == ReadDoc(dsk[path].json)
    IN State_validate(
        [is_set      |-> TRUE,
         path        |-> path,
         description |-> doc.description,
         payloads    |-> [i \in DOMAIN doc.payloads |-> Payload_from_dict(doc.payloads[i])],
         blocks      |-> [i \in DOMAIN doc.blocks |-> Block_from_dict(doc.blocks[i])],
         panels      |-> [i \in DOMAIN doc.panels |-> Panel_from_dict(doc.panels[i])],
         images      |-> State_get_images(doc.images, dsk[path].files)])

\* State._save: the document written to project.json
State_save_raises(st) ==
    \E i \in DOMAIN st.payloads : Payload_as_dict_raises(st.payloads[i])

State_as_doc(st) ==
    [kind        |-> "json",
     description |-> st.description,
     payloads    |-> [i \in DOMAIN st.payloads |-> Payload_as_dict(st.payloads[i])],
     blocks      |-> [i \in DOMAIN st.blocks |-> Block_as_dict(st.blocks[i])],
     panels      |-> [i \in DOMAIN st.panels |-> Panel_as_dict(st.panels[i])],
     images      |-> [i \in DOMAIN st.images |-> Image_as_dict(st.images[i])]]

----------------------------------------------------------------------------
(* ViewerModel.  A handler is a function on the record                     *)
(*   m = [state, is_stale, disk, emitted, unsaved, raised]                 *)
(* so that a handler that calls another is the composition of the two.     *)

M0 == [state |-> state, is_stale |-> is_stale, disk |-> disk,
       emitted |-> <<>>, unsaved |-> unsaved, raised |-> FALSE]

Emit(m, ev, val) == [m EXCEPT !.emitted = Append(@, [ev |-> ev, val |-> val])]

\* ViewerModel.is_stale setter
ViewerModel_is_stale_set(m, val) ==
    IF m.is_stale # val
    THEN Emit([m EXCEPT !.is_stale = val], "is_stale", BoolStr(val))
    ELSE m

\* ViewerModel._set_stale, the subscriber of every wired entity event
ViewerModel_set_stale(m) == ViewerModel_is_stale_set(m, TRUE)

\* an entity event fired after the State became st
Changed(m, st) ==
    ViewerModel_set_stale([m EXCEPT !.state = st, !.unsaved = TRUE])

\* BlockDiagramEditorView._size: the side of the square diagram scene
BlockDiagramEditorView_size == 1000

\* min(max(val, -_size / 2), _size / 2)
Clip(val) ==
    LET min_s == -(BlockDiagramEditorView_size \div 2)
        max_s == BlockDiagramEditorView_size \div 2
    IN IF val < min_s THEN min_s ELSE IF val > max_s THEN max_s ELSE val

\* BlockDiagramEditor.add_indicator: the vector is appended to block.vectors
\* and then clipped in place, so that every entry that is this Vector object
\* is clipped with it
BlockDiagramEditor_add_indicator(block, vector) ==
    LET clipped == [vector EXCEPT !.x = Clip(@), !.y = Clip(@)]
        appended == Append(block.vectors, vector)
    IN [block EXCEPT !.vectors =
           [i \in DOMAIN appended |->
               IF appended[i] = vector THEN clipped ELSE appended[i]]]

\* BlockDiagramEditor.init_indicators, from the i-th device on (1-based):
\* vectors[i] when there is one, a Vector at the origin otherwise
RECURSIVE BlockDiagramEditor_init_indicators(_, _)
BlockDiagramEditor_init_indicators(block, i) ==
    IF i > Len(block.devices) THEN block
    ELSE LET vector == IF i \in DOMAIN block.vectors THEN block.vectors[i]
                       ELSE Vector(0, 0, 0)
         IN BlockDiagramEditor_init_indicators(
                BlockDiagramEditor_add_indicator(block, vector), i + 1)

\* the position events fired while the editor of a block is built: only a
\* vector that clipping moved emits pos.events.x or pos.events.y
BlockDiagramEditor_init_emits(block) ==
    \E i \in DOMAIN block.vectors :
        i <= Len(block.devices) /\ (Clip(block.vectors[i].x) # block.vectors[i].x
                                    \/ Clip(block.vectors[i].y) # block.vectors[i].y)

\* BlocksEditor.block_added -> BlockDiagramEditor.__init__
BlocksEditor_block_added(block) == BlockDiagramEditor_init_indicators(block, 1)

\* PayloadEditor.__init__ ("populate fields"): an unset orientation enum takes
\* the first entry of its combo box
PayloadEditor_init(p) ==
    [p EXCEPT !.long_orient = IF @ = None THEN "TipIntoPage" ELSE @,
              !.long_dir    = IF @ = None THEN "IncreasingTowardsTip" ELSE @,
              !.ang_dir     = IF @ = None THEN "Clockwise" ELSE @]

\* ProjectStep.refresh, subscribed to the path event: builds the editors
ProjectStep_refresh(m) ==
    IF ~m.state.is_set THEN m
    ELSE LET populated == [i \in DOMAIN m.state.payloads |->
                             PayloadEditor_init(m.state.payloads[i])]
             m1 == IF populated = m.state.payloads THEN m
                   ELSE Changed(m, [m.state EXCEPT !.payloads = populated])
             blocks == [i \in DOMAIN m1.state.blocks |->
                          BlocksEditor_block_added(m1.state.blocks[i])]
             clipped == \E i \in DOMAIN m1.state.blocks :
                           BlockDiagramEditor_init_emits(m1.state.blocks[i])
         IN IF blocks = m1.state.blocks THEN m1
            ELSE IF clipped THEN Changed(m1, [m1.state EXCEPT !.blocks = blocks])
            ELSE [m1 EXCEPT !.state.blocks = blocks, !.unsaved = TRUE]

\* variant: a directory without project.json is not marked as unsaved
ViewerModel_set_path_never_stale(m, val) ==
    IF State_init_raises(val, m.disk)
    THEN [m EXCEPT !.raised = TRUE]
    ELSE [m EXCEPT !.state = State_init(val, m.disk),
                   !.unsaved = (m.disk[val].json.kind = "absent")]

\* ViewerModel._set_path
ViewerModel_set_path(m, val) ==
    LET m1 == IF m.disk[val].json.kind = "absent"
              THEN ViewerModel_is_stale_set(m, TRUE) ELSE m
    IN IF State_init_raises(val, m1.disk)
       THEN [m1 EXCEPT !.raised = TRUE]
       ELSE [m1 EXCEPT !.state = State_init(val, m1.disk),
                       !.unsaved = (m.disk[val].json.kind = "absent")]

\* variant: the setter does not look at is_stale
ViewerModel_path_set_unguarded(m, val) ==
    IF val = None THEN [m EXCEPT !.state = NoState, !.unsaved = FALSE]
    ELSE IF m.state.is_set /\ m.state.path = val THEN m
    ELSE IF ~Path_is_dir(val) THEN m
    ELSE IF Path_name(val) = "" THEN m
    ELSE LET m1 == ViewerModel_set_path(m, val)
         IN IF m1.raised THEN m1
            ELSE ProjectStep_refresh(Emit(m1, "path", val))

\* ViewerModel.path setter, with the subscribers of the path event
ViewerModel_path_set(m, val) ==
    IF m.is_stale THEN m
    ELSE IF val = None THEN [m EXCEPT !.state = NoState, !.unsaved = FALSE]
    ELSE IF m.state.is_set /\ m.state.path = val THEN m
    ELSE IF ~Path_is_dir(val) THEN m
    ELSE IF Path_name(val) = "" THEN m
    ELSE LET m1 == ViewerModel_set_path(m, val)
         IN IF m1.raised THEN m1
            ELSE ProjectStep_refresh(Emit(m1, "path", val))

\* outcomes of opening and writing project.json
IOChoices == {"ok", "open_fails", "write_fails"}

\* State._save
State_save(m, io) ==
    IF State_save_raises(m.state) \/ io = "open_fails"
    THEN [m EXCEPT !.raised = TRUE]
    ELSE IF io = "write_fails"
    THEN [Emit(m, "write", "partial") EXCEPT
            !.disk[m.state.path].json = Corrupt, !.raised = TRUE]
    ELSE [Emit(m, "write", "ok") EXCEPT
            !.disk[m.state.path].json = State_as_doc(m.state),
            !.unsaved = FALSE]

\* variant: save() writes whether or not anything is pending
ViewerModel_save_ungated(m, io) ==
    IF ~m.state.is_set THEN m
    ELSE LET m1 == State_save(m, io)
         IN IF m1.raised THEN m1 ELSE ViewerModel_is_stale_set(m1, FALSE)

\* variant: save() clears the flag first and writes afterwards
ViewerModel_save_clears_first(m, io) ==
    IF ~m.state.is_set THEN m
    ELSE IF ~m.is_stale THEN m
    ELSE State_save(ViewerModel_is_stale_set(m, FALSE), io)

\* ViewerModel.save
ViewerModel_save(m, io) ==
    IF ~m.state.is_set THEN m
    ELSE IF ~m.is_stale THEN m
    ELSE LET m1 == State_save(m, io)
         IN IF m1.raised THEN m1 ELSE ViewerModel_is_stale_set(m1, FALSE)

\* answers of the save dialog
ResponseChoices == {"Save", "Discard", "Cancel"}

\* Viewer.on_path_change_requested
Viewer_on_path_change_requested(m, response, new_path, io) ==
    LET resolved ==
            IF ~m.is_stale THEN m
            ELSE IF ~m.state.is_set THEN [m EXCEPT !.raised = TRUE]
            ELSE LET m1 == IF response = "Save" THEN ViewerModel_save(m, io) ELSE m
                 IN IF m1.raised THEN m1
                    ELSE ViewerModel_is_stale_set(m1, FALSE)
    IN IF m.is_stale /\ m.state.is_set /\ response = "Cancel" THEN m
       ELSE IF resolved.raised THEN resolved
       ELSE IF new_path = None THEN resolved
       ELSE ViewerModel_path_set(resolved, new_path)

----------------------------------------------------------------------------
(* Cross-reference maintenance by the editors                              *)

Names(items) == {items[i].name : i \in DOMAIN items}

\* DevicesEditor._validate_payload_names, in the editor of every block
DevicesEditor_validate_payload_names(st) ==
    [st EXCEPT !.blocks = [b \in DOMAIN st.blocks |->
        [st.blocks[b] EXCEPT !.devices = [d \in DOMAIN st.blocks[b].devices |->
            IF st.blocks[b].devices[d].payload_name \notin Names(st.payloads)
            THEN [st.blocks[b].devices[d] EXCEPT !.payload_name = ""]
            ELSE st.blocks[b].devices[d]]]]]

\* DevicesEditor._validate_sample_names, in the editor of block b
DevicesEditor_validate_sample_names(st, b) ==
    [st EXCEPT !.blocks[b].devices = [d \in DOMAIN st.blocks[b].devices |->
        IF st.blocks[b].devices[d].sample_name \notin Names(st.blocks[b].samples)
        THEN [st.blocks[b].devices[d] EXCEPT !.sample_name = ""]
        ELSE st.blocks[b].devices[d]]]

\* ImagesEditor._validate_block_names
ImagesEditor_validate_block_names(st) ==
    [st EXCEPT !.images = [i \in DOMAIN st.images |->
        IF st.images[i].block_name \notin Names(st.blocks)
        THEN [st.images[i] EXCEPT !.block_name = ""]
        ELSE st.images[i]]]

\* ImagesEditor._validate_panel_names
ImagesEditor_validate_panel_names(st) ==
    [st EXCEPT !.images = [i \in DOMAIN st.images |->
        IF st.images[i].panel_name \notin Names(st.panels)
        THEN [st.images[i] EXCEPT !.panel_name = ""]
        ELSE st.images[i]]]

\* variant: only the editor of the first block follows a payload's name
DevicesEditor_update_payload_name_first_block(st, old_name, new_name) ==
    [st EXCEPT !.blocks = [b \in DOMAIN st.blocks |->
        [st.blocks[b] EXCEPT !.devices = [d \in DOMAIN st.blocks[b].devices |->
            IF b = 1 /\ st.blocks[b].devices[d].payload_name = old_name
            THEN [st.blocks[b].devices[d] EXCEPT !.payload_name = new_name]
            ELSE st.blocks[b].devices[d]]]]]

\* DevicesEditor._add_payload_bindings.update, in the editor of every block
DevicesEditor_update_payload_name(st, old_name, new_name) ==
    [st EXCEPT !.blocks = [b \in DOMAIN st.blocks |->
        [st.blocks[b] EXCEPT !.devices = [d \in DOMAIN st.blocks[b].devices |->
            IF st.blocks[b].devices[d].payload_name = old_name
            THEN [st.blocks[b].devices[d] EXCEPT !.payload_name = new_name]
            ELSE st.blocks[b].devices[d]]]]]

\* variant: the editors of all blocks follow a sample's name
DevicesEditor_update_sample_name_all_blocks(st, b, old_name, new_name) ==
    [st EXCEPT !.blocks = [x \in DOMAIN st.blocks |->
        [st.blocks[x] EXCEPT !.devices = [d \in DOMAIN st.blocks[x].devices |->
            IF st.blocks[x].devices[d].sample_name = old_name
            THEN [st.blocks[x].devices[d] EXCEPT !.sample_name = new_name]
            ELSE st.blocks[x].devices[d]]]]]

\* DevicesEditor._add_sample_bindings.update, in the editor of block b
DevicesEditor_update_sample_name(st, b, old_name, new_name) ==
    [st EXCEPT !.blocks[b].devices = [d \in DOMAIN st.blocks[b].devices |->
        IF st.blocks[b].devices[d].sample_name = old_name
        THEN [st.blocks[b].devices[d] EXCEPT !.sample_name = new_name]
        ELSE st.blocks[b].devices[d]]]

\* variant: the images editor does not follow a block's name
ImagesEditor_update_block_name_unbound(st, old_name, new_name) == st

\* ImagesEditor._add_block_bindings.update
ImagesEditor_update_block_name(st, old_name, new_name) ==
    [st EXCEPT !.images = [i \in DOMAIN st.images |->
        IF st.images[i].block_name = old_name
        THEN [st.images[i] EXCEPT !.block_name = new_name]
        ELSE st.images[i]]]

\* ImagesEditor._add_panel_bindings.update
ImagesEditor_update_panel_name(st, old_name, new_name) ==
    [st EXCEPT !.images = [i \in DOMAIN st.images |->
        IF st.images[i].panel_name = old_name
        THEN [st.images[i] EXCEPT !.panel_name = new_name]
        ELSE st.images[i]]]

----------------------------------------------------------------------------
(* Operations                                                              *)

\* Viewer.steps: ProjectStep, AnnotationStep, AnalysisStep
ViewerSteps == 3

\* NavigatorModel.__init__.  backs and back_from are history: the number of
\* move_back calls that ended the calls made so far, and the index before the
\* first of them.  only_next is history: every call made on the
\* model since it was constructed was move_next
NavigatorModel_init(n) ==
    [n |-> n, index |-> 0, is_valid |-> FALSE, only_next |-> TRUE,
     backs |-> 0, back_from |-> 0]

\* NavigatorModel.first, NavigatorModel.last
NavigatorModel_first(nav) == nav.index = 0
NavigatorModel_last(nav) == nav.index = nav.n - 1

\* min(max(val, 0), n - 1)
NavigatorModel_clamp(nav, val) ==
    IF val < 0 THEN (IF 0 < nav.n - 1 THEN 0 ELSE nav.n - 1)
    ELSE IF val < nav.n - 1 THEN val ELSE nav.n - 1

\* variant: a step ahead is taken whether or not the current step is complete
NavigatorModel_index_set_ungated(nav, v) ==
    LET val == NavigatorModel_clamp(nav, v)
    IN IF val # nav.index
       THEN [nav |-> [nav EXCEPT !.index = val],
             emitted |-> << [ev |-> "index", val |-> Str(val)] >>]
       ELSE [nav |-> nav, emitted |-> <<>>]

\* variant: a step back is refused, like a step ahead, while the current step
\* is not complete
NavigatorModel_index_set_gated_back(nav, v) ==
    LET val == NavigatorModel_clamp(nav, v)
    IN IF val # nav.index /\ nav.is_valid
       THEN [nav |-> [nav EXCEPT !.index = val],
             emitted |-> << [ev |-> "index", val |-> Str(val)] >>]
       ELSE [nav |-> nav, emitted |-> <<>>]

\* NavigatorModel.index setter: the model afterwards and the events emitted
NavigatorModel_index_set(nav, v) ==
    LET val == NavigatorModel_clamp(nav, v)
    IN IF val > nav.index
       THEN IF nav.is_valid
            THEN [nav |-> [nav EXCEPT !.index = val],
                  emitted |-> << [ev |-> "index", val |-> Str(val)] >>]
            ELSE [nav |-> nav, emitted |-> <<>>]
       ELSE IF val < nav.index
       THEN [nav |-> [nav EXCEPT !.index = val],
             emitted |-> << [ev |-> "index", val |-> Str(val)] >>]
       ELSE [nav |-> nav, emitted |-> <<>>]

\* NavigatorModel.is_valid setter
NavigatorModel_is_valid_set(nav, val) ==
    IF nav.is_valid # val
    THEN [nav |-> [nav EXCEPT !.is_valid = val],
          emitted |-> << [ev |-> "is_valid", val |-> BoolStr(val)] >>]
    ELSE [nav |-> nav, emitted |-> <<>>]

Op(name, args, m) == [op |-> name, args |-> args, raised |-> m.raised]

Commit(m, name, args) ==
    /\ nops < MaxOps
    /\ nops' = nops + 1
    /\ state' = m.state
    /\ is_stale' = m.is_stale
    /\ disk' = m.disk
    /\ emitted' = m.emitted
    /\ unsaved' = m.unsaved
    /\ lastOp' = Op(name, args, m)
    /\ UNCHANGED <<navigator, container>>   \* the project step stays current

\* model.path = val
SetPath(val) ==
    Commit(ViewerModel_path_set(M0, val), "set_path", <<val>>)

\* model.save()
Save(io) ==
    Commit(ViewerModel_save(M0, io), "save", <<io>>)

\* the "open project" action / the select-project button
PathChangeRequested(response, new_path, io) ==
    Commit(Viewer_on_path_change_requested(M0, response, new_path, io),
           "path_change_requested", <<response, new_path, io>>)

\* ProjectStep.refresh.set_description -> State.description setter
SetDescription(val) ==
    /\ state.is_set
    /\ Commit(IF state.description # val
              THEN Changed(M0, [state EXCEPT !.description = val])
              ELSE M0,
              "set_description", <<val>>)

\* PayloadsEditor.add_payload
AddPayload ==
    /\ state.is_set
    /\ Len(state.payloads) < MaxPayloads
    /\ LET name == "New payload " \o Str(Len(state.payloads) + 1)
           payload == PayloadEditor_init(Payload(name))
       IN Commit(Changed(M0, [state EXCEPT !.payloads = Append(@, payload)]),
                 "add_payload", <<name>>)

\* PayloadsEditor.update_name -> Payload.name setter
RenamePayload(i, name) ==
    /\ state.is_set
    /\ i \in DOMAIN state.payloads
    /\ LET old == state.payloads[i].name
           st  == [state EXCEPT !.payloads[i].name = name]
       IN Commit(IF old # name
                 THEN Changed(M0, DevicesEditor_update_payload_name(st, old, name))
                 ELSE M0,
                 "rename_payload", <<i, old, name>>)

\* PayloadsEditor.ask_delete_payload, answered Yes
DeletePayload(i) ==
    /\ state.is_set
    /\ i \in DOMAIN state.payloads
    /\ LET st == [state EXCEPT !.payloads = RemoveAt(@, i)]
       IN Commit(Changed(M0, DevicesEditor_validate_payload_names(st)),
                 "delete_payload", <<i, state.payloads[i].name>>)

\* BlocksEditor.add_block
AddBlock ==
    /\ state.is_set
    /\ Len(state.blocks) < MaxBlocks
    /\ LET name == "New block " \o Str(Len(state.blocks) + 1)
       IN Commit(Changed(M0, [state EXCEPT !.blocks = Append(@, Block(name))]),
                 "add_block", <<name>>)

\* BlocksEditor.update_name -> Block.name setter
RenameBlock(i, name) ==
    /\ state.is_set
    /\ i \in DOMAIN state.blocks
    /\ LET old == state.blocks[i].name
           st  == [state EXCEPT !.blocks[i].name = name]
       IN Commit(IF old # name
                 THEN Changed(M0, ImagesEditor_update_block_name(st, old, name))
                 ELSE M0,
                 "rename_block", <<i, old, name>>)

\* BlocksEditor.ask_remove_block, answered Yes
DeleteBlock(i) ==
    /\ state.is_set
    /\ i \in DOMAIN state.blocks
    /\ LET st == [state EXCEPT !.blocks = RemoveAt(@, i)]
       IN Commit(Changed(M0, ImagesEditor_validate_block_names(st)),
                 "delete_block", <<i, state.blocks[i].name>>)

\* SamplesEditor.add_sample
AddSample(b) ==
    /\ state.is_set
    /\ b \in DOMAIN state.blocks
    /\ Len(state.blocks[b].samples) < MaxSamples
    /\ LET name == "New sample " \o Str(Len(state.blocks[b].samples) + 1)
       IN Commit(Changed(M0, [state EXCEPT !.blocks[b].samples =
                                               Append(@, Sample(name))]),
                 "add_sample", <<b, name>>)

\* SamplesTableModel.setItem on the name column -> Sample.name setter
RenameSample(b, i, name) ==
    /\ state.is_set
    /\ b \in DOMAIN state.blocks
    /\ i \in DOMAIN state.blocks[b].samples
    /\ LET old == state.blocks[b].samples[i].name
           st  == [state EXCEPT !.blocks[b].samples[i].name = name]
       IN Commit(IF old # name
                 THEN Changed(M0, DevicesEditor_update_sample_name(st, b, old, name))
                 ELSE M0,
                 "rename_sample", <<b, i, old, name>>)

\* SamplesEditor.delete_sample
DeleteSample(b, i) ==
    /\ state.is_set
    /\ b \in DOMAIN state.blocks
    /\ i \in DOMAIN state.blocks[b].samples
    /\ LET st == [state EXCEPT !.blocks[b].samples = RemoveAt(@, i)]
       IN Commit(Changed(M0, DevicesEditor_validate_sample_names(st, b)),
                 "delete_sample", <<b, i, state.blocks[b].samples[i].name>>)

\* DevicesEditor.add_device
AddDevice(b) ==
    /\ state.is_set
    /\ b \in DOMAIN state.blocks
    /\ Len(state.blocks[b].devices) < MaxDevices
    /\ LET name == "Device " \o Str(Len(state.blocks[b].devices) + 1)
       IN Commit(Changed(M0, [state EXCEPT
                    !.blocks[b].devices = Append(@, Device(name)),
                    !.blocks[b].vectors = Append(@, Vector(0, 0, 0))]),
                 "add_device", <<b, name>>)

\* DevicesEditor.delete_device
DeleteDevice(b, d) ==
    /\ state.is_set
    /\ b \in DOMAIN state.blocks
    /\ d \in DOMAIN state.blocks[b].devices
    /\ Commit(Changed(M0, [state EXCEPT !.blocks[b].devices = RemoveAt(@, d),
                                        !.blocks[b].vectors = RemoveAt(@, d)]),
              "delete_device", <<b, d>>)

\* DevicesTableModel.setData, payload column: a name picked in the combo box
SetDevicePayloadName(b, d, name) ==
    /\ state.is_set
    /\ b \in DOMAIN state.blocks
    /\ d \in DOMAIN state.blocks[b].devices
    /\ name \in Names(state.payloads) \cup {""}
    /\ Commit(IF state.blocks[b].devices[d].payload_name # name
              THEN Changed(M0, [state EXCEPT
                                  !.blocks[b].devices[d].payload_name = name])
              ELSE M0,
              "set_device_payload_name", <<b, d, name>>)

\* DevicesTableModel.setData, sample column: a name picked in the combo box
SetDeviceSampleName(b, d, name) ==
    /\ state.is_set
    /\ b \in DOMAIN state.blocks
    /\ d \in DOMAIN state.blocks[b].devices
    /\ name \in Names(state.blocks[b].samples) \cup {""}
    /\ Commit(IF state.blocks[b].devices[d].sample_name # name
              THEN Changed(M0, [state EXCEPT
                                  !.blocks[b].devices[d].sample_name = name])
              ELSE M0,
              "set_device_sample_name", <<b, d, name>>)

\* PanelsEditor.add_panel
AddPanel ==
    /\ state.is_set
    /\ Len(state.panels) < MaxPanels
    /\ LET name == "New panel " \o Str(Len(state.panels) + 1)
       IN Commit(Changed(M0, [state EXCEPT !.panels = Append(@, Panel(name))]),
                 "add_panel", <<name>>)

\* PanelsEditor.update_name -> Panel.name setter
RenamePanel(i, name) ==
    /\ state.is_set
    /\ i \in DOMAIN state.panels
    /\ LET old == state.panels[i].name
           st  == [state EXCEPT !.panels[i].name = name]
       IN Commit(IF old # name
                 THEN Changed(M0, ImagesEditor_update_panel_name(st, old, name))
                 ELSE M0,
                 "rename_panel", <<i, old, name>>)

\* PanelsEditor.ask_delete_panel, answered Yes
DeletePanel(i) ==
    /\ state.is_set
    /\ i \in DOMAIN state.panels
    /\ LET st == [state EXCEPT !.panels = RemoveAt(@, i)]
       IN Commit(Changed(M0, ImagesEditor_validate_panel_names(st)),
                 "delete_panel", <<i, state.panels[i].name>>)

\* ImagesTableModel.setData, block column: a name picked in the combo box
SetImageBlockName(i, name) ==
    /\ state.is_set
    /\ i \in DOMAIN state.images
    /\ name \in Names(state.blocks) \cup {""}
    /\ Commit(IF state.images[i].block_name # name
              THEN Changed(M0, [state EXCEPT !.images[i].block_name = name])
              ELSE M0,
              "set_image_block_name", <<i, name>>)

\* ImagesTableModel.setData, panel column: a name picked in the combo box
SetImagePanelName(i, name) ==
    /\ state.is_set
    /\ i \in DOMAIN state.images
    /\ name \in Names(state.panels) \cup {""}
    /\ Commit(IF state.images[i].panel_name # name
              THEN Changed(M0, [state EXCEPT !.images[i].panel_name = name])
              ELSE M0,
              "set_image_panel_name", <<i, name>>)

\* ImagesTableModel.setData, path column -> Image.move: the file is renamed
\* on disk and the entry's relpath replaced; no event is emitted
MoveImage(i, dst) ==
    /\ state.is_set
    /\ i \in DOMAIN state.images
    /\ LET src == state.images[i].relpath
           taken == \E j \in DOMAIN state.images : state.images[j].relpath = dst
       IN Commit(IF taken THEN M0
                 ELSE [M0 EXCEPT
                         !.state.images[i].relpath = dst,
                         !.disk[state.path].files = (@ \ {src}) \cup {dst},
                         !.unsaved = TRUE],
                 "move_image", <<i, dst>>)

----------------------------------------------------------------------------
(* Specifications                                                          *)

Init ==
    /\ state = NoState
    /\ is_stale = FALSE
    /\ disk = InitDisk
    /\ emitted = <<>>
    /\ unsaved = FALSE
    /\ lastOp = [op |-> "init", args |-> <<>>, raised |-> FALSE]
    /\ nops = 0
    /\ navigator = NavigatorModel_init(ViewerSteps)
    /\ container = NoContainer

\* the viewer: projects are opened, edited, saved and switched
Next ==
    \/ \E val \in PathChoices : SetPath(val)
    \/ \E io \in IOChoices : Save(io)
    \/ \E response \in ResponseChoices, new_path \in PathChoices, io \in IOChoices :
          PathChangeRequested(response, new_path, io)
    \/ \E val \in DescriptionChoices : SetDescription(val)
    \/ AddPayload
    \/ \E i \in 1..MaxPayloads : DeletePayload(i)
    \/ \E i \in 1..MaxImages, dst \in RelPaths : MoveImage(i, dst)

Spec == Init /\ [][Next]_vars

\* a project just opened from directory d
Opened(d) ==
    LET m == ViewerModel_path_set(
                [state |-> NoState, is_stale |-> FALSE, disk |-> InitDisk,
                 emitted |-> <<>>, unsaved |-> FALSE, raised |-> FALSE], d)
    IN /\ state = m.state
       /\ is_stale = m.is_stale
       /\ disk = m.disk
       /\ emitted = m.emitted
       /\ unsaved = m.unsaved
       /\ lastOp = Op("set_path", <<d>>, m)
       /\ nops = 0
       /\ navigator = NavigatorModel_init(ViewerSteps)
       /\ container = NoContainer

InitRefs == \E d \in {"P", "R"} : Opened(d)

\* editing payloads, samples and devices of an open project
NextDevices ==
    \/ AddPayload
    \/ \E i \in 1..MaxPayloads, name \in NameChoices : RenamePayload(i, name)
    \/ \E i \in 1..MaxPayloads : DeletePayload(i)
    \/ AddBlock
    \/ \E i \in 1..MaxBlocks : DeleteBlock(i)
    \/ \E b \in 1..MaxBlocks : AddSample(b)
    \/ \E b \in 1..MaxBlocks, i \in 1..MaxSamples, name \in NameChoices :
          RenameSample(b, i, name)
    \/ \E b \in 1..MaxBlocks, i \in 1..MaxSamples : DeleteSample(b, i)
    \/ \E b \in 1..MaxBlocks : AddDevice(b)
    \/ \E b \in 1..MaxBlocks, d \in 1..MaxDevices : DeleteDevice(b, d)
    \/ \E b \in 1..MaxBlocks, d \in 1..MaxDevices,
          name \in Names(state.payloads) \cup {""} :
          SetDevicePayloadName(b, d, name)
    \/ \E b \in DOMAIN state.blocks, d \in 1..MaxDevices :
          \E name \in Names(state.blocks[b].samples) \cup {""} :
              SetDeviceSampleName(b, d, name)

SpecDevices == InitRefs /\ [][NextDevices]_vars

\* editing blocks, panels and the image table of an open project
NextImages ==
    \/ AddBlock
    \/ \E i \in 1..MaxBlocks, name \in NameChoices : RenameBlock(i, name)
    \/ \E i \in 1..MaxBlocks : DeleteBlock(i)
    \/ AddPanel
    \/ \E i \in 1..MaxPanels, name \in NameChoices : RenamePanel(i, name)
    \/ \E i \in 1..MaxPanels : DeletePanel(i)
    \/ \E i \in 1..MaxImages, name \in Names(state.blocks) \cup {""} :
          SetImageBlockName(i, name)
    \/ \E i \in 1..MaxImages, name \in Names(state.panels) \cup {""} :
          SetImagePanelName(i, name)

SpecImages == InitRefs /\ [][NextImages]_vars

----------------------------------------------------------------------------
(* Properties                                                              *)

Events(ev) == {i \in DOMAIN emitted : emitted[i].ev = ev}

\* C1: assigning ViewerModel.path while is_stale is true, whatever the value
\* assigned, leaves the path and the owned State as they were, leaves
\* is_stale true and emits no path event.
C1_StalePathSetIsNoOp ==
    [][(is_stale /\ lastOp'.op = "set_path") =>
          /\ state' = state
          /\ is_stale'
          /\ disk' = disk
          /\ \A i \in DOMAIN emitted' : emitted'[i].ev # "path"]_vars

\* a stale project was asked to switch to another existing directory and
\* stayed where it was
C1_Witness ==
    /\ lastOp.op = "set_path"
    /\ lastOp.args[1] \in Dirs
    /\ state.is_set
    /\ state.path # lastOp.args[1]
    /\ is_stale
    /\ emitted = <<>>

\* the half of C2 that protects the user's work
C2_NeverCleanWhileUnsaved == unsaved => is_stale

\* C2: is_stale is true exactly when the project in memory holds changes
\* that have not been written to project.json, across edits, saves, path
\* changes, image moves and the controller's save/discard/cancel flow; in
\* particular it is never false while unsaved changes exist.
C2_StaleIffUnsaved == (is_stale => unsaved) /\ C2_NeverCleanWhileUnsaved

\* C3: every cross-reference is "" or the name of an existing entity: a
\* device's payload_name names a payload, its sample_name a sample of its own
\* block, an image's block_name a block and its panel_name a panel; also
\* right after loading a project.json whose references name nothing.
C3_ReferencesResolve ==
    state.is_set =>
        /\ \A b \in DOMAIN state.blocks : \A d \in DOMAIN state.blocks[b].devices :
              /\ state.blocks[b].devices[d].payload_name
                     \in Names(state.payloads) \cup {""}
              /\ state.blocks[b].devices[d].sample_name
                     \in Names(state.blocks[b].samples) \cup {""}
        /\ \A i \in DOMAIN state.images :
              /\ state.images[i].block_name \in Names(state.blocks) \cup {""}
              /\ state.images[i].panel_name \in Names(state.panels) \cup {""}

\* C4: renaming a payload from old to new rewrites payload_name to new in
\* every device, of every block, whose payload_name was old; no other field
\* of any device changes, and the renamed payload is as valid as the same
\* payload with only its name replaced.
C4_PayloadRenameCascades ==
    [][lastOp'.op = "rename_payload" =>
          LET i == lastOp'.args[1]
              old_name == state.payloads[i].name
              new_name == lastOp'.args[3]
          IN /\ state'.payloads = [state.payloads EXCEPT ![i].name = new_name]
             /\ DOMAIN state'.blocks = DOMAIN state.blocks
             /\ \A b \in DOMAIN state.blocks :
                   /\ state'.blocks[b].name = state.blocks[b].name
                   /\ state'.blocks[b].samples = state.blocks[b].samples
                   /\ DOMAIN state'.blocks[b].devices = DOMAIN state.blocks[b].devices
                   /\ \A d \in DOMAIN state.blocks[b].devices :
                         state'.blocks[b].devices[d] =
                             IF state.blocks[b].devices[d].payload_name = old_name
                             THEN [state.blocks[b].devices[d] EXCEPT
                                     !.payload_name = new_name]
                             ELSE state.blocks[b].devices[d]
             /\ Payload_is_valid(state'.payloads[i]) =
                    Payload_is_valid([state.payloads[i] EXCEPT !.name = new_name])
      ]_vars

\* a payload was given a name no other payload has, devices of two blocks
\* follow it, and a device that named another payload still names that one
C4_Witness ==
    /\ lastOp.op = "rename_payload"
    /\ lastOp.args[2] # lastOp.args[3]
    /\ lastOp.args[3] # ""
    /\ \A j \in DOMAIN state.payloads :
          j # lastOp.args[1] => state.payloads[j].name # lastOp.args[3]
    /\ \E b1, b2 \in DOMAIN state.blocks :
          /\ b1 # b2
          /\ \E d \in DOMAIN state.blocks[b1].devices :
                state.blocks[b1].devices[d].payload_name = lastOp.args[3]
          /\ \E d \in DOMAIN state.blocks[b2].devices :
                state.blocks[b2].devices[d].payload_name = lastOp.args[3]
    /\ \E b \in DOMAIN state.blocks : \E d \in DOMAIN state.blocks[b].devices :
          state.blocks[b].devices[d].payload_name
              \in Names(state.payloads) \ {"", lastOp.args[3]}

\* C5: renaming a sample of block X from old to new rewrites sample_name to
\* new in the devices of X whose sample_name was old, and in no device of
\* another block, even one whose sample_name is old.
C5_SampleRenameStaysInBlock ==
    [][lastOp'.op = "rename_sample" =>
          LET x == lastOp'.args[1]
              i == lastOp'.args[2]
              old_name == state.blocks[x].samples[i].name
              new_name == lastOp'.args[4]
          IN /\ DOMAIN state'.blocks = DOMAIN state.blocks
             /\ state'.blocks[x].samples =
                    [state.blocks[x].samples EXCEPT ![i].name = new_name]
             /\ DOMAIN state'.blocks[x].devices = DOMAIN state.blocks[x].devices
             /\ \A d \in DOMAIN state.blocks[x].devices :
                   state'.blocks[x].devices[d] =
                       IF state.blocks[x].devices[d].sample_name = old_name
                       THEN [state.blocks[x].devices[d] EXCEPT
                               !.sample_name = new_name]
                       ELSE state.blocks[x].devices[d]
             /\ \A b \in DOMAIN state.blocks \ {x} :
                   state'.blocks[b] = state.blocks[b]
      ]_vars

\* a sample of one block was renamed, a device of that block follows it,
\* and a device of another block still carries the old name
C5_Witness ==
    /\ lastOp.op = "rename_sample"
    /\ lastOp.args[3] # lastOp.args[4]
    /\ lastOp.args[3] # ""
    /\ lastOp.args[4] # ""
    /\ \E d \in DOMAIN state.blocks[lastOp.args[1]].devices :
          state.blocks[lastOp.args[1]].devices[d].sample_name = lastOp.args[4]
    /\ \E b \in DOMAIN state.blocks \ {lastOp.args[1]} :
          \E d \in DOMAIN state.blocks[b].devices :
              state.blocks[b].devices[d].sample_name = lastOp.args[3]

C7_DeleteResetsOnlyDependents ==
    [][/\ lastOp'.op = "delete_payload" =>
             LET name == state.payloads[lastOp'.args[1]].name
                 gone == name \notin Names(state'.payloads)
             IN /\ state'.payloads = RemoveAt(state.payloads, lastOp'.args[1])
                /\ DOMAIN state'.blocks = DOMAIN state.blocks
                /\ \A b \in DOMAIN state.blocks :
                      /\ DOMAIN state'.blocks[b].devices =
                             DOMAIN state.blocks[b].devices
                      /\ \A d \in DOMAIN state.blocks[b].devices :
                            state'.blocks[b].devices[d] =
                                IF gone /\ state.blocks[b].devices[d].payload_name = name
                                THEN [state.blocks[b].devices[d] EXCEPT
                                        !.payload_name = ""]
                                ELSE state.blocks[b].devices[d]
       /\ lastOp'.op = "delete_sample" =>
             LET x == lastOp'.args[1]
                 name == state.blocks[x].samples[lastOp'.args[2]].name
                 gone == name \notin Names(state'.blocks[x].samples)
             IN /\ DOMAIN state'.blocks = DOMAIN state.blocks
                /\ state'.blocks[x].samples =
                       RemoveAt(state.blocks[x].samples, lastOp'.args[2])
                /\ DOMAIN state'.blocks[x].devices = DOMAIN state.blocks[x].devices
                /\ \A d \in DOMAIN state.blocks[x].devices :
                      state'.blocks[x].devices[d] =
                          IF gone /\ state.blocks[x].devices[d].sample_name = name
                          THEN [state.blocks[x].devices[d] EXCEPT !.sample_name = ""]
                          ELSE state.blocks[x].devices[d]
                /\ \A b \in DOMAIN state.blocks \ {x} :
                      state'.blocks[b] = state.blocks[b]
       /\ lastOp'.op = "delete_block" =>
             LET name == state.blocks[lastOp'.args[1]].name
                 gone == name \notin Names(state'.blocks)
             IN /\ state'.blocks = RemoveAt(state.blocks, lastOp'.args[1])
                /\ DOMAIN state'.images = DOMAIN state.images
                /\ \A i \in DOMAIN state.images :
                      state'.images[i] =
                          IF gone /\ state.images[i].block_name = name
                          THEN [state.images[i] EXCEPT !.block_name = ""]
                          ELSE state.images[i]
       /\ lastOp'.op = "delete_panel" =>
             LET name == state.panels[lastOp'.args[1]].name
                 gone == name \notin Names(state'.panels)
             IN /\ state'.panels = RemoveAt(state.panels, lastOp'.args[1])
                /\ DOMAIN state'.images = DOMAIN state.images
                /\ \A i \in DOMAIN state.images :
                      state'.images[i] =
                          IF gone /\ state.images[i].panel_name = name
                          THEN [state.images[i] EXCEPT !.panel_name = ""]
                          ELSE state.images[i]
      ]_vars

\* C8: ViewerModel.save() called when no project is set, or when is_stale is
\* false, writes nothing to project.json, changes neither is_stale nor any
\* other state of the model, and emits no event.
C8_SaveIsNoOpUnlessSetAndStale ==
    [][(lastOp'.op = "save" /\ (~state.is_set \/ ~is_stale)) =>
          /\ disk' = disk
          /\ state' = state
          /\ is_stale' = is_stale
          /\ emitted' = <<>>
          /\ ~lastOp'.raised]_vars

\* save() returned from an open project that has nothing pending
C8_Witness ==
    /\ lastOp.op = "save"
    /\ state.is_set
    /\ ~is_stale
    /\ ~unsaved
    /\ emitted = <<>>

\* C9: ViewerModel.save() called when a project is set and is_stale is true
\* writes the current state to project.json and then sets is_stale to false,
\* emitting the is_stale event exactly once, with value false; the write comes
\* before the flag is cleared, and if the write raises is_stale remains true.
C9_SaveWritesThenClears ==
    [][(lastOp'.op = "save" /\ state.is_set /\ is_stale) =>
          /\ state' = state
          /\ IF lastOp'.raised
             THEN /\ is_stale'
                  /\ \A i \in DOMAIN emitted' : emitted'[i].ev # "is_stale"
             ELSE /\ emitted' = << [ev |-> "write", val |-> "ok"],
                                   [ev |-> "is_stale", val |-> "False"] >>
                  /\ disk' = [disk EXCEPT ![state.path].json = State_as_doc(state)]
                  /\ ~is_stale']_vars

\* a pending change was saved: project.json holds the state in memory, the
\* write came first and the flag was cleared after it
C9_Witness ==
    /\ lastOp.op = "save"
    /\ ~lastOp.raised
    /\ state.is_set
    /\ ~is_stale
    /\ Len(emitted) = 2
    /\ emitted[1].ev = "write"
    /\ emitted[2] = [ev |-> "is_stale", val |-> "False"]
    /\ disk[state.path].json = State_as_doc(state)
    /\ disk[state.path].json # InitDisk[state.path].json

FirstPathEvent == CHOOSE i \in Events("path") : \A j \in Events("path") : i <= j

\* C10 as stated: assigning to path, while not stale, an existing non-root
\* directory P loads a new State for P and emits exactly one path event
\* carrying P; afterwards is_stale is true if P held no project.json and false
\* if it did.
C10_PathSetLoads ==
    [][(lastOp'.op = "set_path" /\ ~is_stale /\ lastOp'.args[1] \in Dirs) =>
          LET P == lastOp'.args[1]
          IN /\ state'.is_set
             /\ state'.path = P
             /\ Cardinality(Events("path")') = 1
             /\ \A i \in Events("path")' : emitted'[i].val = P
             /\ is_stale' = (disk[P].json.kind = "absent")]_vars

\* C10, amended: assigning to path, while not stale, an existing non-root
\* directory P that is not the current path loads a new State for P and emits
\* exactly one path event carrying P, provided the load raises no error; when
\* that event is emitted is_stale is true if P held no project.json and false
\* if it did.  If the load raises, the State and path stay as they were and
\* no path event is emitted.
C10_PathSetLoadsAmended ==
    [][(/\ lastOp'.op = "set_path"
        /\ ~is_stale
        /\ lastOp'.args[1] \in Dirs
        /\ ~(state.is_set /\ state.path = lastOp'.args[1])) =>
          LET P == lastOp'.args[1]
              loaded == State_init(P, disk)
          IN IF State_init_raises(P, disk)
             THEN /\ lastOp'.raised
                  /\ state' = state
                  /\ Events("path")' = {}
             ELSE /\ ~lastOp'.raised
                  /\ state'.is_set
                  /\ state'.path = P
                  /\ [state' EXCEPT !.payloads = loaded.payloads,
                                    !.blocks = loaded.blocks] = loaded
                  /\ Cardinality(Events("path")') = 1
                  /\ \A i \in Events("path")' : emitted'[i].val = P
                  /\ IF disk[P].json.kind = "absent"
                     THEN /\ FirstPathEvent' = 2
                          /\ emitted'[1] = [ev |-> "is_stale", val |-> "True"]
                     ELSE FirstPathEvent' = 1]_vars

\* a project was open and unchanged, and a directory without project.json
\* was opened in its place: the flag was raised, then the path event sent
C10_Witness ==
    /\ lastOp.op = "set_path"
    /\ state.is_set
    /\ state.path = lastOp.args[1]
    /\ disk[state.path].json.kind = "absent"
    /\ emitted = << [ev |-> "is_stale", val |-> "True"],
                    [ev |-> "path", val |-> state.path] >>
    /\ is_stale

\* the persisted fields of the entities of a State; an Image's relpath names
\* the file and is no field of the image table
PersistedFields(st) ==
    [description |-> st.description,
     payloads    |-> st.payloads,
     blocks      |-> st.blocks,
     panels      |-> st.panels,
     images      |-> [i \in DOMAIN st.images |->
                        [block_name |-> st.images[i].block_name,
                         panel_name |-> st.images[i].panel_name]]]

\* C11: after a project is loaded, any change of a persisted field of any
\* entity, and any append, delete, swap or sort of a collection, sets is_stale
\* to true.  A step that loads a project is measured from the State it loaded,
\* any other step from the State it started with.
C11_EveryChangeSetsStale ==
    [][(state'.is_set /\ ~lastOp'.raised) =>
          LET loads == Events("path")' # {}
              before == IF loads
                        THEN State_init(emitted'[FirstPathEvent'].val, disk)
                        ELSE state
          IN (before.is_set /\ PersistedFields(state') # PersistedFields(before))
                => is_stale']_vars

\* C12: a project-change request while is_stale is true.  With Cancel the
\* path, the State and is_stale stay as they were and nothing is written.
\* With Save project.json is written before any switch of project.  With
\* Discard nothing is written.  is_stale is cleared only once the unsaved
\* changes were written or were discarded by replacing the State: cancelling
\* the directory selection, or selecting the same directory again, never
\* leaves the unsaved changes in memory with is_stale false.
C12_StaleChangeRequest ==
    [][(lastOp'.op = "path_change_requested" /\ is_stale /\ state.is_set) =>
          LET response == lastOp'.args[1]
              written == \E i \in Events("write")' : emitted'[i].val = "ok"
          IN /\ response = "Cancel" =>
                  /\ state' = state
                  /\ is_stale' = is_stale
                  /\ disk' = disk
                  /\ emitted' = <<>>
             /\ response = "Save" =>
                  \A i \in Events("path")' :
                      \E j \in Events("write")' : j < i /\ emitted'[j].val = "ok"
             /\ response = "Discard" => (disk' = disk /\ Events("write")' = {})
             /\ ~is_stale' => (written \/ Events("path")' # {})]_vars

----------------------------------------------------------------------------
(* Validity of payloads and blocks (State.invalid_*_indexes), applied to    *)
(* States drawn from bounded sets                                           *)

MaxFormulations == 2

\* Sample.is_valid
Sample_is_valid(s) == s.name # ""

\* Device.is_valid
Device_is_valid(d) == d.name # "" /\ d.payload_name # "" /\ d.sample_name # ""

\* Block.is_valid
Block_is_valid(b) ==
    /\ b.name # ""
    /\ \A i \in DOMAIN b.samples : Sample_is_valid(b.samples[i])
    /\ \A i \in DOMAIN b.devices : Device_is_valid(b.devices[i])

\* the 0-based indexes of the entries of a list of names that occur more than
\* once in it
DuplicateIndexes(names) ==
    UNION {LET indexes == {i \in DOMAIN names : names[i] = name}
           IN IF Cardinality(indexes) > 1 THEN {i - 1 : i \in indexes} ELSE {}
           : name \in Range(names)}

\* variant: of the payloads sharing a name, the first one is not reported
State_invalid_payload_indexes_later_only(st) ==
    LET names == [i \in DOMAIN st.payloads |-> st.payloads[i].name]
    IN {i - 1 : i \in {j \in DOMAIN st.payloads :
                          ~Payload_is_valid(st.payloads[j])}}
       \cup {i - 1 : i \in {j \in DOMAIN names :
                               \E k \in DOMAIN names : k < j /\ names[k] = names[j]}}

\* State.invalid_payload_indexes
State_invalid_payload_indexes(st) ==
    LET invalid == {i - 1 : i \in {j \in DOMAIN st.payloads :
                                      ~Payload_is_valid(st.payloads[j])}}
        names == [i \in DOMAIN st.payloads |-> st.payloads[i].name]
    IN invalid \cup DuplicateIndexes(names)

\* State.invalid_block_indexes
State_invalid_block_indexes(st) ==
    LET invalid == {i - 1 : i \in {j \in DOMAIN st.blocks :
                                      ~Block_is_valid(st.blocks[j])}}
        names == [i \in DOMAIN st.blocks |-> st.blocks[i].name]
        sample_names(b) == [i \in DOMAIN b.samples |-> b.samples[i].name]
        sample_dups == {i - 1 : i \in {j \in DOMAIN st.blocks :
                           DuplicateIndexes(sample_names(st.blocks[j])) # {}}}
        unnamed == {i - 1 : i \in {j \in DOMAIN st.blocks :
                       \E d \in DOMAIN st.blocks[j].devices :
                           st.blocks[j].devices[d].name = ""}}
    IN invalid \cup DuplicateIndexes(names) \cup sample_dups \cup unnamed

\* PayloadsEditor.validate: the indexes are handed to the view, nothing of the
\* model changes
PayloadsEditor_validate ==
    /\ state.is_set
    /\ lastOp' = Op("validate_payloads",
                    <<State_invalid_payload_indexes(state)>>, M0)
    /\ UNCHANGED <<state, is_stale, disk, emitted, unsaved, nops, navigator,
                 container>>

\* BlocksEditor.validate
BlocksEditor_validate ==
    /\ state.is_set
    /\ lastOp' = Op("validate_blocks",
                    <<State_invalid_block_indexes(state)>>, M0)
    /\ UNCHANGED <<state, is_stale, disk, emitted, unsaved, nops, navigator,
                 container>>

SeqsUpTo(S, n) == UNION {[1..k -> S] : k \in 0..n}

\* names of the drawn entities
DrawnNames == {"", "A", "B"}

\* (level, angle in degrees, name) of the drawn formulations
FormulationArgs ==
    {<<"1", 0, "F">>, <<"1", 360, "F">>, <<"1", 90, "F">>, <<"", 0, "F">>}

\* a payload built by the constructors; unoriented leaves long_orient unset
DrawnPayload(name, oriented, fargs) ==
    [Payload(name) EXCEPT
        !.long_orient = IF oriented THEN "TipIntoPage" ELSE None,
        !.long_dir = "IncreasingTowardsTip",
        !.ang_dir = "Clockwise",
        !.formulations = [i \in DOMAIN fargs |->
                             Formulation(i, fargs[i][1], fargs[i][2], fargs[i][3])]]

\* lists of payloads: the first one carries formulations
DrawnPayloads ==
    {<<>>} \cup
    {<<DrawnPayload(name, oriented, fargs)>> \o rest :
        name \in DrawnNames, oriented \in BOOLEAN,
        fargs \in SeqsUpTo(FormulationArgs, MaxFormulations),
        rest \in SeqsUpTo({DrawnPayload(n, TRUE, <<>>) : n \in DrawnNames},
                          MaxPayloads - 1)}

\* (name, payload_name, sample_name) of the drawn devices
DeviceArgs ==
    {<<"Device 1", "A", "A">>, <<"Device 2", "A", "A">>, <<"", "A", "A">>,
     <<"Device 1", "", "">>}

DrawnDevices ==
    {[Device(args[1]) EXCEPT !.payload_name = args[2], !.sample_name = args[3]] :
        args \in DeviceArgs}

\* lists of blocks: the first one carries samples and devices
DrawnBlocks ==
    {<<>>} \cup
    {<<[Block(name) EXCEPT !.samples = samples, !.devices = devices]>> \o rest :
        name \in DrawnNames,
        samples \in SeqsUpTo({Sample(n) : n \in DrawnNames}, MaxSamples),
        devices \in SeqsUpTo(DrawnDevices, MaxDevices),
        rest \in {<<>>, <<Block("A")>>}}

\* a new project in directory Q, holding the drawn payloads or blocks
InitValidity ==
    /\ \E payloads \in DrawnPayloads, blocks \in DrawnBlocks :
          /\ payloads = <<>> \/ blocks = <<>>
          /\ state = [State_init("Q", InitDisk) EXCEPT !.payloads = payloads,
                                                       !.blocks = blocks]
    /\ is_stale = TRUE
    /\ disk = InitDisk
    /\ emitted = <<>>
    /\ unsaved = TRUE
    /\ lastOp = [op |-> "init", args |-> <<>>, raised |-> FALSE]
    /\ nops = 0
    /\ navigator = NavigatorModel_init(ViewerSteps)
    /\ container = NoContainer

NextValidity ==
    \/ PayloadsEditor_validate
    \/ BlocksEditor_validate

SpecValidity == InitValidity /\ [][NextValidity]_vars

\* two formulations of payload p with the same level and the same angle value
HasEqualFormulations(p) ==
    \E j, k \in DOMAIN p.formulations :
        /\ j # k
        /\ p.formulations[j].level = p.formulations[k].level
        /\ p.formulations[j].angle.deg = p.formulations[k].angle.deg

\* C13: a payload with two formulations that have the same level and the same
\* angle value is invalid, whatever its other fields: is_valid() is false and
\* its index is in invalid_payload_indexes().
C13_EqualFormulationsInvalid ==
    lastOp.op = "validate_payloads" =>
        \A i \in DOMAIN state.payloads :
            HasEqualFormulations(state.payloads[i]) =>
                /\ ~Payload_is_valid(state.payloads[i])
                /\ (i - 1) \in lastOp.args[1]

\* C14: State.invalid_payload_indexes() is exactly the set of the indexes i
\* such that payload i is not valid, together with the indexes i such that
\* some other payload j has the name of payload i; of two valid payloads with
\* the same name both are reported.
C14_InvalidPayloadIndexes ==
    lastOp.op = "validate_payloads" =>
        lastOp.args[1] =
            {i - 1 : i \in {j \in DOMAIN state.payloads :
                \/ ~Payload_is_valid(state.payloads[j])
                \/ \E k \in DOMAIN state.payloads :
                      k # j /\ state.payloads[k].name = state.payloads[j].name}}

\* two valid payloads with the same name were validated and both are reported
C14_Witness ==
    /\ lastOp.op = "validate_payloads"
    /\ Len(state.payloads) = 3
    /\ Payload_is_valid(state.payloads[1])
    /\ Payload_is_valid(state.payloads[2])
    /\ Payload_is_valid(state.payloads[3])
    /\ state.payloads[1].name = state.payloads[3].name
    /\ state.payloads[2].name # state.payloads[1].name
    /\ lastOp.args[1] = {0, 2}

\* C15: a block is valid only if its name is non-empty, each of its samples
\* and devices is valid, its sample names are pairwise distinct and its device
\* names are pairwise distinct: a block with two devices of the same name, or
\* two samples of the same name, is not valid or is reported by
\* invalid_block_indexes().
C15_BlockValidity ==
    lastOp.op = "validate_blocks" =>
        \A i \in DOMAIN state.blocks :
            LET b == state.blocks[i]
                distinct(items) == \A j, k \in DOMAIN items :
                                       j # k => items[j].name # items[k].name
            IN (Block_is_valid(b) /\ (i - 1) \notin lastOp.args[1]) =>
                  /\ b.name # ""
                  /\ \A j \in DOMAIN b.samples : Sample_is_valid(b.samples[j])
                  /\ \A j \in DOMAIN b.devices : Device_is_valid(b.devices[j])
                  /\ distinct(b.samples)
                  /\ distinct(b.devices)

\* the reconciliation that C16 describes, entry by entry: available holds the
\* image files no earlier entry has taken
RECURSIVE ReconciledEntries(_, _, _)
ReconciledEntries(entries, available, images) ==
    IF entries = <<>>
    THEN images \o NewImages(available)
    ELSE LET im == Image_from_dict(Head(entries))
             same_name == {r \in available :
                              Relpath_name(r) = Relpath_name(im.relpath)}
         IN IF im.relpath \in available
            THEN ReconciledEntries(Tail(entries), available \ {im.relpath},
                                   Append(images, im))
            ELSE IF same_name # {}
            THEN LET r == CHOOSE x \in same_name : TRUE
                 IN ReconciledEntries(Tail(entries), available \ {r},
                                      Append(images, [im EXCEPT !.relpath = r]))
            ELSE ReconciledEntries(Tail(entries), available, images)

\* C16: loading reconciles each recorded image entry with the image files on
\* disk.  An entry whose path exists is kept; otherwise, if a file with the
\* same base filename is still available, the entry takes that file's path
\* and keeps its block and panel names; otherwise it is dropped.  A file that
\* an entry took is no longer available to later entries, and the files no
\* entry took become new Images with empty names.
C16_LoadReconcilesImages ==
    [][(/\ lastOp'.op = "set_path"
        /\ ~is_stale
        /\ lastOp'.args[1] \in Dirs
        /\ ~(state.is_set /\ state.path = lastOp'.args[1])
        /\ ~get_pr_image_relpaths_raises(disk[lastOp'.args[1]].files)) =>
          LET P == lastOp'.args[1]
              expected == ReconciledEntries(ReadDoc(disk[P].json).images,
                                            ImageRelpaths(disk[P].files), <<>>)
          IN /\ state'.is_set
             /\ state'.path = P
             /\ Len(state'.images) = Len(expected)
             /\ Range(state'.images) = Range(expected)]_vars

\* C17: if two distinct files under images/ with an allowed extension share a
\* base filename, loading the project raises an error and no State is
\* created; if the base filenames are pairwise distinct the scan raises no
\* error.
C17_DuplicateBasenamesRaise ==
    [][(/\ lastOp'.op = "set_path"
        /\ ~is_stale
        /\ lastOp'.args[1] \in Dirs
        /\ ~(state.is_set /\ state.path = lastOp'.args[1])) =>
          LET P == lastOp'.args[1]
              image_files == {r \in disk[P].files : HasImageExt(r)}
              basenames == {Relpath_name(r) : r \in image_files}
              entries == ReadDoc(disk[P].json).images
          IN IF Cardinality(basenames) < Cardinality(image_files)
             THEN /\ lastOp'.raised
                  /\ state' = state
                  /\ Events("path")' = {}
             ELSE /\ ~get_pr_image_relpaths_raises(disk[P].files)
                  /\ lastOp'.raised =>
                        GetImagesLoop(entries, disk[P].files, image_files,
                                      <<>>).raised]_vars

\* a directory holding a/x.svs and b/x.svs was assigned: the load raised and
\* the model has no State
C17_Witness ==
    /\ lastOp = [op |-> "set_path", args |-> <<"D">>, raised |-> TRUE]
    /\ ~state.is_set
    /\ \E r1, r2 \in disk["D"].files :
          /\ r1 # r2
          /\ HasImageExt(r1) /\ HasImageExt(r2)
          /\ Relpath_name(r1) = Relpath_name(r2)

----------------------------------------------------------------------------
(* Saving a State and loading it again                                      *)

\* State._save followed at once by State(path=...) for the same directory
SaveAndReload(io) ==
    /\ state.is_set
    /\ LET m1 == State_save(M0, io)
       IN Commit(IF m1.raised THEN m1
                 ELSE [m1 EXCEPT !.state = State_init(state.path, m1.disk)],
                 "save_reload", <<io>>)

NextRoundTrip == \E io \in IOChoices : SaveAndReload(io)

\* States drawn from bounded sets, saved and loaded again
SpecRoundTrip == InitValidity /\ [][NextRoundTrip]_vars

\* C18: for every State, payloads with unset orientation enums included,
\* saving succeeds when the file can be written, and loading the directory
\* again right away yields a State whose as_dict() equals the as_dict() of
\* the State that was saved.
C18_SaveReloadRoundTrip ==
    [][(lastOp'.op = "save_reload" /\ lastOp'.args[1] = "ok") =>
          /\ ~lastOp'.raised
          /\ State_as_doc(state') = State_as_doc(state)]_vars

----------------------------------------------------------------------------
(* The navigator: a NavigatorModel of n steps and the calls made on it      *)

MaxSteps == 4
MaxCalls == 13

\* a call on the navigator model: nops counts the calls since construction
Called(name, args, result, only_next) ==
    /\ nops < MaxCalls
    /\ nops' = nops + 1
    /\ navigator' = [result.nav EXCEPT
                        !.only_next = only_next,
                        !.backs = IF name = "move_back" THEN @ + 1 ELSE 0,
                        !.back_from = IF name # "move_back" THEN 0
                                      ELSE IF navigator.backs = 0
                                      THEN navigator.index ELSE @]
    /\ emitted' = result.emitted
    /\ lastOp' = [op |-> name, args |-> args, raised |-> FALSE]
    /\ UNCHANGED <<state, is_stale, disk, unsaved, container>>

\* NavigatorModel.move_next
MoveNext ==
    Called("move_next", <<>>,
           NavigatorModel_index_set(navigator, navigator.index + 1),
           navigator.only_next)

\* NavigatorModel.move_back
MoveBack ==
    Called("move_back", <<>>,
           NavigatorModel_index_set(navigator, navigator.index - 1), FALSE)

\* navigator.model.index = val
SetIndex(val) ==
    Called("set_index", <<val>>, NavigatorModel_index_set(navigator, val), FALSE)

\* navigator.model.is_valid = val
SetIsValid(val) ==
    Called("set_is_valid", <<val>>,
           NavigatorModel_is_valid_set(navigator, val), FALSE)

\* a navigator model just constructed, for any number of steps
InitNavigator ==
    /\ state = NoState
    /\ is_stale = FALSE
    /\ disk = InitDisk
    /\ emitted = <<>>
    /\ unsaved = FALSE
    /\ lastOp = [op |-> "init", args |-> <<>>, raised |-> FALSE]
    /\ nops = 0
    /\ \E n \in 1..MaxSteps : navigator = NavigatorModel_init(n)
    /\ container = NoContainer

NextNavigator ==
    \/ MoveNext
    \/ MoveBack
    \/ \E val \in -1..MaxSteps : SetIndex(val)
    \/ \E val \in BOOLEAN : SetIsValid(val)

SpecNavigator == InitNavigator /\ [][NextNavigator]_vars

\* C19: on a navigation model just constructed (index 0; first true and last
\* false when n = 4), each move_next() increases index by exactly one until
\* index = n - 1 and leaves it there afterwards: after one call index is 1
\* with first and last false, after ten calls on a 4-step model index is 3
\* with last true.
C19_FreshMoveNextAdvances ==
    navigator.only_next =>
        /\ navigator.index = (IF nops < navigator.n - 1 THEN nops
                              ELSE navigator.n - 1)
        /\ (navigator.n = 4 /\ nops = 0) =>
              (NavigatorModel_first(navigator) /\ ~NavigatorModel_last(navigator))
        /\ (navigator.n = 4 /\ nops = 1) =>
              (~NavigatorModel_first(navigator) /\ ~NavigatorModel_last(navigator))
        /\ (navigator.n = 4 /\ nops = 10) =>
              (navigator.index = 3 /\ NavigatorModel_last(navigator))

C21_IndexInRange ==
    /\ 0 <= navigator.index
    /\ navigator.index <= navigator.n - 1
    /\ NavigatorModel_first(navigator) <=> (navigator.index = 0)
    /\ NavigatorModel_last(navigator) <=> (navigator.index = navigator.n - 1)
    /\ navigator.backs > 0 =>
          navigator.index = (IF navigator.back_from > navigator.backs
                             THEN navigator.back_from - navigator.backs ELSE 0)

\* ten move_back calls were made in a row on a 4-step model that stood at
\* index 3, the current step being incomplete: the index is 0
C21_Witness ==
    /\ lastOp.op = "move_back"
    /\ navigator.n = 4
    /\ navigator.back_from = 3
    /\ navigator.backs = 10
    /\ ~navigator.is_valid
    /\ navigator.index = 0

\* C22: in every block, after loading, after each construction of the
\* block's diagram editor and after any sequence of device add and delete
\* operations, the vectors collection is as long as the devices collection,
\* and vectors[i] is the placement loaded with or created for devices[i]: a
\* load keeps the placement recorded at index i for device i, an added device
\* gets a placement at the origin at its own index.
C22_VectorsAlignedWithDevices ==
    [][state'.is_set =>
          /\ \A b \in DOMAIN state'.blocks :
                Len(state'.blocks[b].vectors) = Len(state'.blocks[b].devices)
          /\ Events("path")' # {} =>
                LET loaded == State_init(state'.path, disk)
                IN \A b \in DOMAIN loaded.blocks :
                      \A i \in DOMAIN loaded.blocks[b].devices :
                          i \in DOMAIN loaded.blocks[b].vectors =>
                              state'.blocks[b].vectors[i] = loaded.blocks[b].vectors[i]
          /\ lastOp'.op = "add_device" =>
                LET b == lastOp'.args[1]
                IN state'.blocks[b].vectors[Len(state'.blocks[b].devices)]
                      = Vector(0, 0, 0)]_vars

----------------------------------------------------------------------------
(* Loading a project.json with any recorded image entries                  *)

MaxEntries == 2    \* recorded image entries of the drawn project.json

\* image entries a project.json may record: any image path, once or twice
DrawnEntries ==
    SeqsUpTo({[relpath |-> r, block_name |-> "", panel_name |-> ""] :
                 r \in {x \in RelPaths : HasImageExt(x)}}, MaxEntries)

\* directory Q holds a project.json with the drawn entries and the drawn files
InitLoad ==
    /\ state = NoState
    /\ is_stale = FALSE
    /\ \E entries \in DrawnEntries, files \in SUBSET {x \in RelPaths : HasImageExt(x)} :
          disk = [InitDisk EXCEPT !["Q"] = [json |-> [EmptyDoc EXCEPT !.images = entries],
                                            files |-> files]]
    /\ emitted = <<>>
    /\ unsaved = FALSE
    /\ lastOp = [op |-> "init", args |-> <<>>, raised |-> FALSE]
    /\ nops = 0
    /\ navigator = NavigatorModel_init(ViewerSteps)
    /\ container = NoContainer

NextLoad == \E val \in {"Q", RootDir} : SetPath(val)

SpecLoad == InitLoad /\ [][NextLoad]_vars

\* C23: after a successful load no two Images of the State have the same
\* relpath, and the set of the Images' relpaths is the set of image files
\* under images/, whatever entries project.json recorded (two entries with
\* the same base filename, a path recorded twice, ...).
C23_LoadedImagesMatchDisk ==
    (state.is_set /\ lastOp.op = "set_path" /\ ~lastOp.raised) =>
        /\ \A i, j \in DOMAIN state.images :
              state.images[i].relpath = state.images[j].relpath => i = j
        /\ {state.images[i].relpath : i \in DOMAIN state.images}
              = ImageRelpaths(disk[state.path].files)

\* C24: when loading a project fails with an error (duplicate base filenames
\* under images/, ...), the ViewerModel is left as it was: the same Project
\* State and path, the same is_stale, and neither an is_stale nor a path
\* event; in particular a failed load of a directory without project.json
\* does not leave is_stale true.
C24_FailedLoadChangesNothing ==
    [][(lastOp'.op = "set_path" /\ lastOp'.raised) =>
          /\ state' = state
          /\ is_stale' = is_stale
          /\ Events("is_stale")' = {}
          /\ Events("path")' = {}]_vars

----------------------------------------------------------------------------
(* Evented containers (utils/events.py)                                    *)

MaxLen == 3        \* longest EventedList of the container specification
Items == {1, 2}    \* items stored in the list

\* entries of container.log: an emission that an emitter passed on to its
\* subscribers, and the call of the subscriber connected from outside;
\* container.seen holds the data the subscriber of `changed` found at each call
Emitted(emitter, value) == [kind |-> "emit", emitter |-> emitter, value |-> value]
Received(emitter, value) == [kind |-> "call", emitter |-> emitter, value |-> value]

\* EventEmitter.emit on the `changed` emitter: Subject.on_next calls the
\* subscribers one after the other, and does nothing while is_stopped
EventEmitter_emit(c, value) ==
    IF c.is_stopped THEN c
    ELSE [c EXCEPT !.log = @ \o <<Emitted("changed", value),
                                  Received("changed", value)>>,
                   !.seen = Append(@, c.data)]

\* emit on added / deleted / swapped: the first subscriber is the lambda of
\* EventedList.Events that emits `changed`, the subscribers connected later
\* come after it
EventedList_Events_emit(c, emitter, value) ==
    LET c1 == [c EXCEPT !.log = Append(@, Emitted(emitter, value))]
        c2 == EventEmitter_emit(c1, None)
    IN [c2 EXCEPT !.log = Append(@, Received(emitter, value))]

EventedList_init(initlist) ==
    [kind |-> "list", data |-> initlist, log |-> <<>>, seen |-> <<>>,
     is_stopped |-> FALSE, raised |-> FALSE]

\* the operations take 0-based indexes; an index out of range raises
\* IndexError before anything is emitted
EventedList_append(c, item) ==
    LET c1 == [c EXCEPT !.data = Append(@, item)]
    IN EventedList_Events_emit(c1, "added",
                               [index |-> Len(c1.data) - 1, item |-> item])

\* variant: deletion reports the change as insert does, with `changed` only
EventedList_delitem_changed_only(c, i) ==
    IF i + 1 \notin DOMAIN c.data THEN [c EXCEPT !.raised = TRUE]
    ELSE EventEmitter_emit([c EXCEPT !.data = RemoveAt(@, i + 1)], i)

EventedList_delitem(c, i) ==
    IF i + 1 \notin DOMAIN c.data THEN [c EXCEPT !.raised = TRUE]
    ELSE EventedList_Events_emit([c EXCEPT !.data = RemoveAt(@, i + 1)],
                                 "deleted", i)

EventedList_setitem(c, i, item) ==
    IF i + 1 \notin DOMAIN c.data THEN [c EXCEPT !.raised = TRUE]
    ELSE EventEmitter_emit([c EXCEPT !.data[i + 1] = item], None)

EventedList_swap(c, ind1, ind2) ==
    IF ind1 + 1 \notin DOMAIN c.data \/ ind2 + 1 \notin DOMAIN c.data
    THEN [c EXCEPT !.raised = TRUE]
    ELSE EventedList_Events_emit(
            [c EXCEPT !.data[ind1 + 1] = c.data[ind2 + 1],
                      !.data[ind2 + 1] = c.data[ind1 + 1]],
            "swapped", [ind1 |-> ind1, ind2 |-> ind2])

EventedList_sort(c) ==
    EventEmitter_emit([c EXCEPT !.data = SortSeq(@, LAMBDA a, b : a < b)], None)

EventedList_clear(c) ==
    EventEmitter_emit([c EXCEPT !.data = <<>>], None)

\* __getitem__, __len__, __contains__, index, count
EventedList_getitem(c, i) ==
    IF i + 1 \notin DOMAIN c.data THEN [c EXCEPT !.raised = TRUE] ELSE c

\* one call on the container: log holds what this call emitted
Applied(name, args, result) ==
    /\ nops < MaxOps
    /\ nops' = nops + 1
    /\ container' = [result EXCEPT !.raised = FALSE]
    /\ lastOp' = [op |-> name, args |-> args, raised |-> result.raised]
    /\ UNCHANGED <<state, is_stale, disk, emitted, unsaved, navigator>>

Fresh == [container EXCEPT !.log = <<>>, !.seen = <<>>, !.raised = FALSE]

\* an EventedList built from any list of at most MaxLen items, with one
\* subscriber connected to each of its four emitters
InitList ==
    /\ state = NoState
    /\ is_stale = FALSE
    /\ disk = InitDisk
    /\ emitted = <<>>
    /\ unsaved = FALSE
    /\ lastOp = [op |-> "init", args |-> <<>>, raised |-> FALSE]
    /\ nops = 0
    /\ navigator = NavigatorModel_init(ViewerSteps)
    /\ \E initlist \in SeqsUpTo(Items, MaxLen) :
          container = EventedList_init(initlist)

NextList ==
    \/ \E item \in Items :
          /\ Len(container.data) < MaxLen
          /\ Applied("append", <<item>>, EventedList_append(Fresh, item))
    \/ \E i \in 0..(MaxLen - 1) :
          Applied("delitem", <<i>>, EventedList_delitem(Fresh, i))
    \/ \E i \in 0..(MaxLen - 1), item \in Items :
          Applied("setitem", <<i, item>>, EventedList_setitem(Fresh, i, item))
    \/ \E ind1, ind2 \in 0..(MaxLen - 1) :
          Applied("swap", <<ind1, ind2>>, EventedList_swap(Fresh, ind1, ind2))
    \/ Applied("sort", <<>>, EventedList_sort(Fresh))
    \/ Applied("clear", <<>>, EventedList_clear(Fresh))
    \/ \E i \in 0..(MaxLen - 1) :
          Applied("getitem", <<i>>, EventedList_getitem(Fresh, i))

SpecList == InitList /\ [][NextList]_vars

\* the emissions of the last call, and the calls the subscribers received
Emissions == SelectSeq(container.log, LAMBDA e : e.kind = "emit")
Receptions == SelectSeq(container.log, LAMBDA e : e.kind = "call")
IsStructured(emitter, value) ==
    /\ Len(Emissions) = 2
    /\ Emissions[1].emitter = emitter
    /\ Emissions[1].value = value
    /\ Emissions[2] = Emitted("changed", None)
    /\ Len(SelectSeq(Receptions, LAMBDA e : e.emitter = "changed")) = 1
OnlyChanged ==
    /\ Emissions = <<Emitted("changed", None)>>
    /\ Receptions = <<Received("changed", None)>>

\* C25: on an EventedList, append emits `added` with the item and its final
\* index and then exactly one `changed`; deletion by index emits `deleted`
\* and then exactly one `changed`; swap emits `swapped` and then exactly one
\* `changed`; sort, clear and index assignment emit exactly one `changed`
\* and no structured event; reads emit nothing.  The subscriber of `changed`
\* is called inside the mutating call.
C25_ListEmissions ==
    (container.kind = "list" /\ lastOp.op # "init" /\ ~lastOp.raised) =>
        /\ lastOp.op = "append" =>
              /\ IsStructured("added", [index |-> Len(container.data) - 1,
                                        item |-> lastOp.args[1]])
              /\ container.data[Len(container.data)] = lastOp.args[1]
        /\ lastOp.op = "delitem" => IsStructured("deleted", lastOp.args[1])
        /\ lastOp.op = "swap" =>
              IsStructured("swapped", [ind1 |-> lastOp.args[1],
                                       ind2 |-> lastOp.args[2]])
        /\ lastOp.op \in {"sort", "clear", "setitem"} => OnlyChanged
        /\ lastOp.op = "getitem" => container.log = <<>>

C25_Witness ==
    /\ container.kind = "list"
    /\ lastOp.op = "delitem" /\ ~lastOp.raised
    /\ lastOp.args = <<1>>
    /\ container.data = <<2, 1>>
    /\ nops = MaxOps

----------------------------------------------------------------------------
(* EventedDict                                                             *)

Keys == {"a", "b"}
Values == {None, "x", "y"}

\* the plain mappings over Keys
Mappings == UNION {[K -> Values] : K \in SUBSET Keys}

EventedDict_init(dct) ==
    [kind |-> "dict", data |-> dct, log |-> <<>>, seen |-> <<>>,
     is_stopped |-> FALSE, raised |-> FALSE]

\* self.data.get(key, None)
Dict_get(data, key) == IF key \in DOMAIN data THEN data[key] ELSE None

\* self.data[key] = item
Dict_set(data, key, item) ==
    [k \in DOMAIN data \cup {key} |-> IF k = key THEN item ELSE data[k]]

\* __setitem__: writes unless the stored item is equal to and the very same
\* object as the new one; same tells whether an equal item is that object
\* (None always is)
EventedDict_setitem(c, key, item, same) ==
    LET old_item == Dict_get(c.data, key)
    IN IF old_item # item \/ ~(same \/ item = None)
       THEN EventEmitter_emit([c EXCEPT !.data = Dict_set(@, key, item)], None)
       ELSE c

EventedDict_delitem(c, key) ==
    IF key \notin DOMAIN c.data THEN [c EXCEPT !.raised = TRUE]
    ELSE EventEmitter_emit(
            [c EXCEPT !.data = [k \in DOMAIN c.data \ {key} |-> c.data[k]]], None)

\* MutableMapping.update: self[key] = m[key] for every key of m
RECURSIVE MutableMapping_update(_, _, _)
MutableMapping_update(c, m, keys) ==
    IF keys = {} THEN c
    ELSE LET key == CHOOSE k \in keys : TRUE
         IN MutableMapping_update(EventedDict_setitem(c, key, m[key], FALSE),
                                  m, keys \ {key})

\* MutableMapping.clear: popitem until KeyError
RECURSIVE MutableMapping_clear(_)
MutableMapping_clear(c) ==
    IF DOMAIN c.data = {} THEN c
    ELSE LET key == CHOOSE k \in DOMAIN c.data : TRUE
         IN MutableMapping_clear(EventedDict_delitem(c, key))

\* variant: the bulk update leaves the emitter open
EventedDict_update_unblocked(c, m) ==
    EventEmitter_emit(MutableMapping_update(c, m, DOMAIN m), None)

EventedDict_update(c, m) ==
    LET blocked == [c EXCEPT !.is_stopped = TRUE]
        updated == MutableMapping_update(blocked, m, DOMAIN m)
    IN EventEmitter_emit([updated EXCEPT !.is_stopped = FALSE], None)

EventedDict_clear(c) ==
    LET blocked == [c EXCEPT !.is_stopped = TRUE]
        cleared == MutableMapping_clear(blocked)
    IN EventEmitter_emit([cleared EXCEPT !.is_stopped = FALSE], None)

\* classmethod fromkeys: d = cls(), then d[key] = value for every key
RECURSIVE EventedDict_fromkeys_loop(_, _, _)
EventedDict_fromkeys_loop(d, keys, value) ==
    IF keys = {} THEN d
    ELSE LET key == CHOOSE k \in keys : TRUE
         IN EventedDict_fromkeys_loop(EventedDict_setitem(d, key, value, TRUE),
                                      keys \ {key}, value)

EventedDict_fromkeys(keys, value) ==
    EventedDict_fromkeys_loop(EventedDict_init(<<>>), keys, value)

EventedDict_getitem(c, key) ==
    IF key \in DOMAIN c.data THEN c ELSE [c EXCEPT !.raised = TRUE]

\* the body of the loop of SamplesEditor.update_cohort_name, for the cohorts
\* of one sample
SamplesEditor_update_cohort_name(c, old_name, name) ==
    LET cohort_value == Dict_get(c.data, old_name)
        deleted == EventedDict_delitem(c, old_name)
        c1 == IF deleted.raised THEN c ELSE deleted
    IN EventedDict_setitem(c1, name, cohort_value, TRUE)

\* an EventedDict holding any mapping, with one subscriber connected to
\* its changed emitter
InitDict ==
    /\ state = NoState
    /\ is_stale = FALSE
    /\ disk = InitDisk
    /\ emitted = <<>>
    /\ unsaved = FALSE
    /\ lastOp = [op |-> "init", args |-> <<>>, raised |-> FALSE]
    /\ nops = 0
    /\ navigator = NavigatorModel_init(ViewerSteps)
    /\ \E dct \in Mappings : container = EventedDict_init(dct)

NextDict ==
    \/ \E key \in Keys, item \in Values, same \in BOOLEAN :
          Applied("setitem", <<key, item>>,
                  EventedDict_setitem(Fresh, key, item, same))
    \/ \E key \in Keys : Applied("delitem", <<key>>, EventedDict_delitem(Fresh, key))
    \/ \E m \in Mappings : Applied("update", <<m>>, EventedDict_update(Fresh, m))
    \/ Applied("clear", <<>>, EventedDict_clear(Fresh))
    \/ \E keys \in SUBSET Keys, value \in Values :
          Applied("fromkeys", <<keys, value>>, EventedDict_fromkeys(keys, value))
    \/ \E key \in Keys : Applied("getitem", <<key>>, EventedDict_getitem(Fresh, key))
    \/ \E old_name \in Keys, name \in Keys :
          /\ old_name \in DOMAIN container.data
          /\ old_name # name
          /\ name \notin DOMAIN container.data
          /\ Applied("update_cohort_name", <<old_name, name>>,
                     SamplesEditor_update_cohort_name(Fresh, old_name, name))

SpecDict == InitDict /\ [][NextDict]_vars

\* C26: EventedDict.update and EventedDict.clear deliver exactly one
\* `changed` emission to the subscriber, after all keys have been applied
\* (the subscriber finds the final mapping), however many keys are written
\* or removed; nothing is delivered while the bulk mutation is in progress
\* or replayed afterwards, and the emitter is unblocked once the call returns.
C26_BulkEmitsOnce ==
    [][(container'.kind = "dict" /\ lastOp'.op \in {"update", "clear"}) =>
          /\ container'.log = <<Emitted("changed", None), Received("changed", None)>>
          /\ container'.seen = <<container'.data>>
          /\ ~container'.is_stopped
          /\ lastOp'.op = "clear" => container'.data = <<>>]_vars

C26_Witness ==
    /\ container.kind = "dict"
    /\ lastOp.op = "update"
    /\ DOMAIN lastOp.args[1] = Keys
    /\ container.data = lastOp.args[1]
    /\ container.data["a"] # container.data["b"]

\* C30: after the assignment d[k] = v on an EventedDict, for every key k and
\* every value v (None for an absent key included), k is a key of d and
\* d[k] = v; so renaming a cohort group leaves the new key in the cohorts of
\* the sample, and fromkeys(keys, value) holds every key.
C30_AssignmentStores ==
    (container.kind = "dict" /\ ~lastOp.raised) =>
        /\ lastOp.op = "setitem" =>
              /\ lastOp.args[1] \in DOMAIN container.data
              /\ container.data[lastOp.args[1]] = lastOp.args[2]
        /\ lastOp.op = "update_cohort_name" =>
              /\ lastOp.args[2] \in DOMAIN container.data
              /\ lastOp.args[1] \notin DOMAIN container.data
        /\ lastOp.op = "fromkeys" =>
              /\ DOMAIN container.data = lastOp.args[1]
              /\ \A k \in lastOp.args[1] : container.data[k] = lastOp.args[2]

\* C27: after any sequence of add and delete operations on payloads
\* (likewise blocks, panels), the default name given to a newly added entity
\* differs from every name already in the collection, so adding to a
\* collection without invalid indexes creates no duplicate-name invalid index.
C27_DefaultNameIsNew ==
    [][/\ lastOp'.op = "add_payload" =>
            /\ lastOp'.args[1] \notin Names(state.payloads)
            /\ State_invalid_payload_indexes(state) = {} =>
                  State_invalid_payload_indexes(state') = {}
       /\ lastOp'.op = "add_block" =>
            /\ lastOp'.args[1] \notin Names(state.blocks)
            /\ State_invalid_block_indexes(state) = {} =>
                  State_invalid_block_indexes(state') = {}
       /\ lastOp'.op = "add_panel" =>
            lastOp'.args[1] \notin Names(state.panels)]_vars

\* Payload.name setter on payload i, with the update subscribed by the
\* devices editor of every block
Payload_name_set(st, i, val) ==
    IF st.payloads[i].name # val
    THEN DevicesEditor_update_payload_name(
            [st EXCEPT !.payloads[i].name = val], st.payloads[i].name, val)
    ELSE st

\* the payload_name of every device of every block
PayloadNamesOfDevices(st) ==
    [b \in DOMAIN st.blocks |->
        [d \in DOMAIN st.blocks[b].devices |-> st.blocks[b].devices[d].payload_name]]

\* C28: renaming a payload from A to B and then from B back to A restores
\* the payload_name of every device of every block to what it was before
\* the first rename, in every configuration, one where another payload is
\* already named B and devices refer to it included.
C28_RenameRoundTrip ==
    state.is_set =>
        \A i \in DOMAIN state.payloads : \A B \in NameChoices :
            LET A == state.payloads[i].name
                renamed == Payload_name_set(state, i, B)
                restored == Payload_name_set(renamed, i, A)
            IN PayloadNamesOfDevices(restored) = PayloadNamesOfDevices(state)

\* C29: a reference that is unset (the empty string) stays empty under every
\* rename of a payload, sample, block or panel, the rename of an entity
\* whose current name is "" included.
C29_UnsetStaysUnset ==
    [][lastOp'.op \in {"rename_payload", "rename_sample", "rename_block",
                       "rename_panel"} =>
          /\ \A b \in DOMAIN state.blocks : \A d \in DOMAIN state.blocks[b].devices :
                /\ state.blocks[b].devices[d].payload_name = "" =>
                      state'.blocks[b].devices[d].payload_name = ""
                /\ state.blocks[b].devices[d].sample_name = "" =>
                      state'.blocks[b].devices[d].sample_name = ""
          /\ \A i \in DOMAIN state.images :
                /\ state.images[i].block_name = "" => state'.images[i].block_name = ""
                /\ state.images[i].panel_name = "" => state'.images[i].panel_name = ""
      ]_vars

====
